---------------------------- MODULE Spec2Model ----------------------------
(***************************************************************************)
(* A model of the Trinidad Express scraper: the batch pipeline of          *)
(* BulkScraper.scrapeInBatches over TrinidadExpressScraper (scrapeArticle, *)
(* scrapeSequentially, scrapeInParallel), and the discovery loop of        *)
(* URLCollector.collectArticleUrls in its scroll and pagination variants.  *)
(***************************************************************************)
EXTENDS Integers, Sequences, FiniteSets, TLC

(***************************************************************************)
(* Bounds of the model.                                                    *)
(***************************************************************************)
MaxUrls == 3
MaxBatchSize == 3
MaxConcurrency == 2
MaxRetries == 2
MaxDistinctUrls == 6
NumKeys == 2
NumSiteKeys == 3
MaxScrollAttempts == 6
MaxPages == 4
MaxTarget == 4
MaxSaveInterval == 2
MaxFileKeys == 2
MaxOriginalRetries == 4

(***************************************************************************)
(* Program constants.                                                      *)
(***************************************************************************)
ProgressEvery == 5
maxStagnantScrolls == 5
maxStagnantPages == 3

\* The keys (article URLs) that key lists with repetitions are drawn from
Keys == 1..NumKeys

VARIABLES
    urls,          \* the key list handed to scrapeInBatches
    batchSize,     \* BulkScraper options.batchSize
    concurrency,   \* BulkScraper options.concurrency
    retries,       \* TrinidadExpressScraper options.retries
    pc,            \* position of the scrapeInBatches driver
    i,             \* loop variable of scrapeInBatches (offset of the batch)
    results,       \* accumulated results of scrapeInBatches
    batchResults,  \* what scrapeMultipleArticles returned for the batch
    slots,         \* per item of the batch: the state of its scrapeArticle call
    reordered,     \* history: a fetch completed before one of lower index
    progress,      \* the progress files written, as <<batchNumber, count>>
    saveError,     \* TRUE once a progress write failed
    pacingDelays,  \* history: pacing delays of scrapeSequentially elapsed in the batch
    pauses,        \* history: inter-batch pauses of scrapeInBatches elapsed
    mode,          \* the URLCollector variant: "scroll" or "pagination"
    options,       \* URLCollector options: targetCount, saveInterval, resumeFromFile
    site,          \* the listing source: <<>> (any content) or its fixed pages
    file,          \* the checkpoint file outputDir/outputFile
    collectedUrls, \* URLCollector.collectedUrls, in insertion order
    dpc,           \* position of collectArticleUrls
    steps,         \* scrollAttempts (scroll) or currentPage (pagination)
    lastUrlCount,  \* lastUrlCount
    stagnant,      \* stagnantScrolls or stagnantPages
    newUrlsFound,  \* newUrlsFound of the last extraction
    visible,       \* the cleaned article URLs the page shows at present
    dresult,       \* the CollectionResult returned
    seeded,        \* history: the keys loadExistingUrls put into collectedUrls
    zeroRun,       \* history: consecutive extractions so far that added no key
    extractions,   \* history: the extractions made so far
    timeout,       \* TrinidadExpressScraper options.timeout (ms)
    entry,         \* the BulkScraper method called: "retry", "urlfile" or "none"
    rpc,           \* position of that method
    inputFile,     \* the failed-keys or URL file it is given
    original,      \* originalRetries and originalTimeout of retryFailedUrls
    before,        \* history: the scraper's retries and timeout before the call
    entryPoint,    \* the exported function whose results are exported
    exportFormat,  \* options.exportFormat
    xpc,           \* position of the export
    written,       \* the artifacts written to the output directory
    exported,      \* history: the results handed to the export
    call,          \* the exported function of index.ts that was called
    phase,         \* position of that function
    remaining,     \* the keys it has still to scrape
    requested,     \* the concurrency option the caller passed
    urlCollectorBrowser,    \* URLCollector.browser is set
    articleScraperBrowser,  \* TrinidadExpressScraper.browser is set
    openBrowsers,  \* the browsers launched and not closed
    interrupted,   \* the items whose attempt the end of the process cut off
    input,         \* the string a pure function is applied to
    output,        \* its result
    back,          \* the result of the second function applied to output
    strSet,        \* a Set of cleaned URLs, in insertion order
    sizeBefore,    \* history: the size of strSet before the insertions
    spc,           \* position of the function applications
    fetches        \* per scrapeArticle call: its position, attempt and open pages

pipeVars == <<urls, batchSize, concurrency, retries, pc, i, results,
              batchResults, slots, reordered, progress, saveError,
              pacingDelays, pauses>>

discVars == <<mode, options, site, file, collectedUrls, dpc, steps, lastUrlCount,
              stagnant, newUrlsFound, visible, dresult, seeded, zeroRun,
              extractions>>

retryVars == <<timeout, entry, rpc, inputFile, original, before>>

exportVars == <<entryPoint, exportFormat, xpc, written, exported>>

hostVars == <<call, phase, remaining, requested, urlCollectorBrowser,
              articleScraperBrowser, openBrowsers, interrupted>>

strVars == <<input, output, back, strSet, sizeBefore, spc>>

pageVars == <<fetches>>

\* What neither the pipeline's nor the collector's steps touch
entryVars == <<retryVars, exportVars, hostVars, strVars, pageVars>>

vars == <<pipeVars, discVars, entryVars>>

(***************************************************************************)
(* Helpers.                                                                *)
(***************************************************************************)
RECURSIVE SeqsUpTo(_, _)
SeqsUpTo(S, n) ==
    IF n = 0 THEN {<<>>}
    ELSE LET shorter == SeqsUpTo(S, n - 1)
         IN  shorter \cup {Append(s, x) : s \in {t \in shorter : Len(t) = n - 1}, x \in S}

Min(a, b) == IF a < b THEN a ELSE b

\* Math.ceil(a / b) for a >= 0, b > 0
CeilDiv(a, b) == (a + b - 1) \div b

\* urls.slice(from, to) with 0-based from (inclusive) and to (exclusive)
Slice(s, from, to) == SubSeq(s, from + 1, Min(to, Len(s)))

(***************************************************************************)
(* scrapeArticle: results.                                                 *)
(***************************************************************************)
\* The message of the error raised by attempt n on url: every attempt's
\* error is its own token, so that results tell the attempts apart.
ErrorOf(url, n) == <<url, n>>

NoError == <<>>

NoResult == [url |-> 0, success |-> FALSE, error |-> NoError, fields |-> "none"]

SuccessResult(url) ==
    [url |-> url, success |-> TRUE, error |-> NoError, fields |-> "extracted"]

FailureResultFirstError(url, n) ==
    [url |-> url, success |-> FALSE, error |-> ErrorOf(url, 1), fields |-> "empty"]

FailureResult(url, n) ==
    [url |-> url, success |-> FALSE, error |-> ErrorOf(url, n), fields |-> "empty"]

\* The scrapeArticle call of one item of the batch, not yet made
PendingSlot(url) ==
    [url |-> url, st |-> "pending", attempt |-> 0, res |-> NoResult, waited |-> 0]

InFlight(j) == slots[j].st \in {"attempt", "backoff"}

NumInFlight == Cardinality({j \in DOMAIN slots : InFlight(j)})

AllDone == \A j \in DOMAIN slots : slots[j].st = "done"

\* As batch, but every batch is sliced from the start of the list
batchFromStart == Slice(urls, 0, batchSize)

\* const batch = urls.slice(i, i + this.options.batchSize)
batch == Slice(urls, i, i + batchSize)

batchNumber == (i \div batchSize) + 1

totalBatches == CeilDiv(Len(urls), batchSize)


(***************************************************************************)
(* TrinidadExpressScraper.scrapeMultipleArticles and its two strategies.   *)
(***************************************************************************)
\* scrapeSequentially pushes each result as it arrives
SeqPush(j, res) == Append(batchResults, res)

\* Bluebird.map resolves to the array of the mappers' values by input index
MapResultsReversed ==
    [j \in 1..Len(slots) |-> slots[Len(slots) + 1 - j].res]

MapResults == [j \in 1..Len(slots) |-> slots[j].res]

\* A slot may be admitted: the sequential loop awaits each scrapeArticle in
\* turn, Bluebird.map keeps at most `concurrency` mappers unresolved.
CanStartAlways(j) ==
    /\ slots[j].st = "pending"
    /\ IF pc = "seq"
       THEN NumInFlight = 0 /\ \A k \in 1..(j - 1) : slots[k].st = "done"
       ELSE pc = "map"

CanStart(j) ==
    /\ slots[j].st = "pending"
    /\ IF pc = "seq"
       THEN NumInFlight = 0 /\ \A k \in 1..(j - 1) : slots[k].st = "done"
       ELSE pc = "map" /\ NumInFlight < concurrency

\* scrapeArticle is called for item j: the for loop starts with attempt = 1
StartFetch(j) ==
    /\ j \in DOMAIN slots
    /\ CanStart(j)
    /\ slots' = [slots EXCEPT ![j].st = "attempt", ![j].attempt = 1]
    /\ UNCHANGED <<urls, batchSize, concurrency, retries, pc, i, results,
                   batchResults, reordered, progress, saveError, pacingDelays, pauses,
                   discVars, entryVars>>

\* As Completed, but a failure result leaves the pipeline as a raised error
CompletedRaisesOnFailure(j, res) ==
    /\ slots' = [slots EXCEPT ![j].st = "done", ![j].res = res]
    /\ reordered' = (reordered \/ \E k \in 1..(j - 1) : slots[k].st # "done")
    /\ IF ~res.success
       THEN pc' = "aborted" /\ UNCHANGED batchResults
       ELSE IF pc = "seq"
            THEN /\ batchResults' = SeqPush(j, res)
                 /\ pc' = IF j < Len(slots) THEN "seqDelay" ELSE "append"
            ELSE UNCHANGED <<batchResults, pc>>

\* As Completed, but the sequential loop paces after the last item too
CompletedPacesAfterLast(j, res) ==
    /\ slots' = [slots EXCEPT ![j].st = "done", ![j].res = res]
    /\ reordered' = (reordered \/ \E k \in 1..(j - 1) : slots[k].st # "done")
    /\ IF pc = "seq"
       THEN /\ batchResults' = SeqPush(j, res)
            /\ pc' = "seqDelay"
       ELSE UNCHANGED <<batchResults, pc>>

\* What follows the return of scrapeArticle for item j with result res
Completed(j, res) ==
    /\ slots' = [slots EXCEPT ![j].st = "done", ![j].res = res]
    /\ reordered' = (reordered \/ \E k \in 1..(j - 1) : slots[k].st # "done")
    /\ IF pc = "seq"
       THEN /\ batchResults' = SeqPush(j, res)
            /\ pc' = IF j < Len(slots) THEN "seqDelay" ELSE "append"
       ELSE UNCHANGED <<batchResults, pc>>

\* An attempt runs to its return statement (part_001 lines 37-55)
AttemptSucceeds(j) ==
    /\ j \in DOMAIN slots
    /\ slots[j].st = "attempt"
    /\ Completed(j, SuccessResult(slots[j].url))
    /\ UNCHANGED <<urls, batchSize, concurrency, retries, i, results,
                   progress, saveError, pacingDelays, pauses,
                   discVars, entryVars>>

\* The attempt's number at which the catch block returns the failure result
IsLastAttempt(n) == n = retries

\* As BackoffUnits, but the same wait after every failed attempt
BackoffUnitsFlat(n) == 1

\* await this.delay(this.options.delay * attempt), in units of options.delay
BackoffUnits(n) == n

\* An attempt raises inside the try block (part_001 lines 57-78)
AttemptFails(j) ==
    /\ j \in DOMAIN slots
    /\ slots[j].st = "attempt"
    /\ IF IsLastAttempt(slots[j].attempt)
       THEN /\ Completed(j, FailureResult(slots[j].url, slots[j].attempt))
            /\ UNCHANGED <<urls, batchSize, concurrency, retries, i, results,
                           progress, saveError, pacingDelays, pauses,
                   discVars, entryVars>>
       ELSE /\ slots' = [slots EXCEPT ![j].st = "backoff",
                                      ![j].waited = @ + BackoffUnits(slots[j].attempt)]
            /\ UNCHANGED <<urls, batchSize, concurrency, retries, pc, i, results,
                           batchResults, reordered, progress, saveError, pacingDelays, pauses,
                   discVars, entryVars>>

\* The result of the return statement after the for loop (part_001 lines 81-94)
MaxRetriesResult(url) ==
    [url |-> url, success |-> FALSE, error |-> <<"Max retries exceeded">>, fields |-> "empty"]

\* delay(options.delay * attempt) elapses, attempt++ and the loop test
BackoffEnds(j) ==
    /\ j \in DOMAIN slots
    /\ slots[j].st = "backoff"
    /\ IF slots[j].attempt + 1 <= retries
       THEN /\ slots' = [slots EXCEPT ![j].st = "attempt", ![j].attempt = @ + 1]
            /\ UNCHANGED <<pc, batchResults, reordered>>
       ELSE Completed(j, MaxRetriesResult(slots[j].url))
    /\ UNCHANGED <<urls, batchSize, concurrency, retries, i, results,
                   progress, saveError, pacingDelays, pauses,
                   discVars, entryVars>>

\* the pacing delay of scrapeSequentially between two items
SeqDelayEnds ==
    /\ pc = "seqDelay"
    /\ pc' = "seq"
    /\ pacingDelays' = pacingDelays + 1
    /\ UNCHANGED <<urls, batchSize, concurrency, retries, i, results,
                   batchResults, slots, reordered, progress, saveError, pauses,
                   discVars, entryVars>>

\* As MapResolves, but the map resolves as soon as one mapper has resolved
MapResolvesEarly ==
    /\ pc = "map"
    /\ \E j \in DOMAIN slots : slots[j].st = "done"
    /\ batchResults' = MapResults
    /\ pc' = "append"
    /\ UNCHANGED <<urls, batchSize, concurrency, retries, i, results,
                   slots, reordered, progress, saveError, pacingDelays, pauses,
                   discVars, entryVars>>

\* Bluebird.map resolves once every mapper has resolved
MapResolves ==
    /\ pc = "map"
    /\ AllDone
    /\ batchResults' = MapResults
    /\ pc' = "append"
    /\ UNCHANGED <<urls, batchSize, concurrency, retries, i, results,
                   slots, reordered, progress, saveError, pacingDelays, pauses,
                   discVars, entryVars>>

(***************************************************************************)
(* BulkScraper.scrapeInBatches.                                            *)
(***************************************************************************)
\* if (batchNumber % 5 === 0 || batchNumber === totalBatches)
SaveDueEveryBatch == TRUE

SaveDue == batchNumber % ProgressEvery = 0 \/ batchNumber = totalBatches

\* As AfterSave, but the pause follows the final batch too
AfterSaveAlwaysPauses == pc' = "pause" /\ i' = i

\* the pause test and the loop increment that follow the checkpoint test
AfterSave ==
    IF i + batchSize < Len(urls)
    THEN pc' = "pause" /\ i' = i
    ELSE pc' = "loop" /\ i' = i + batchSize

\* the loop test succeeds: slice the batch and call scrapeMultipleArticles
BatchStarts ==
    /\ pc = "loop"
    /\ i < Len(urls)
    /\ slots' = [j \in 1..Len(batch) |-> PendingSlot(batch[j])]
    /\ batchResults' = <<>>
    /\ pacingDelays' = 0
    /\ pc' = IF concurrency = 1 THEN "seq" ELSE "map"
    /\ UNCHANGED <<urls, batchSize, concurrency, retries, i, results,
                   reordered, progress, saveError, pauses,
                   discVars, entryVars>>

\* results.push(...batchResults), then the checkpoint test; the batch's
\* locals are not read again
AppendResults ==
    /\ pc = "append"
    /\ results' = results \o batchResults
    /\ batchResults' = <<>>
    /\ slots' = <<>>
    /\ IF SaveDue
       THEN pc' = "save" /\ i' = i
       ELSE AfterSave
    /\ UNCHANGED <<urls, batchSize, concurrency, retries,
                   reordered, progress, saveError, pacingDelays, pauses,
                   discVars, entryVars>>

\* saveProgressResults writes the progress file
SaveProgressOk ==
    /\ pc = "save"
    /\ progress' = Append(progress, <<batchNumber, Len(results)>>)
    /\ AfterSave
    /\ UNCHANGED <<urls, batchSize, concurrency, retries, results, batchResults,
                   slots, reordered, saveError, pacingDelays, pauses,
                   discVars, entryVars>>

\* fs.writeFile rejects: the error leaves scrapeInBatches
SaveProgressFails ==
    /\ pc = "save"
    /\ saveError' = TRUE
    /\ pc' = "aborted"
    /\ UNCHANGED <<urls, batchSize, concurrency, retries, i, results, batchResults,
                   slots, reordered, progress, pacingDelays, pauses,
                   discVars, entryVars>>

\* the 2000 ms pause elapses: i += batchSize
PauseEnds ==
    /\ pc = "pause"
    /\ i' = i + batchSize
    /\ pauses' = pauses + 1
    /\ pc' = "loop"
    /\ UNCHANGED <<urls, batchSize, concurrency, retries, results, batchResults,
                   slots, reordered, progress, saveError, pacingDelays,
                   discVars, entryVars>>

\* the loop test fails: return results
Returns ==
    /\ pc = "loop"
    /\ i >= Len(urls)
    /\ pc' = "done"
    /\ UNCHANGED <<urls, batchSize, concurrency, retries, i, results, batchResults,
                   slots, reordered, progress, saveError, pacingDelays, pauses,
                   discVars, entryVars>>

(***************************************************************************)
(* URLCollector.collectArticleUrls, scroll and pagination variants.        *)
(***************************************************************************)
\* The cleaned article URLs a listing page may show
SiteKeys == 1..NumSiteKeys

RECURSIVE SortedSeq(_)
\* The elements of a finite set of numbers in ascending order: the links of
\* a page are taken in document order, which is key order here
SortedSeq(S) ==
    IF S = {} THEN <<>>
    ELSE LET m == CHOOSE x \in S : \A y \in S : x <= y
         IN  <<m>> \o SortedSeq(S \ {m})

Range(s) == {s[n] : n \in DOMAIN s}

RECURSIVE AddAllCounting(_, _)
AddAllCounting(set, newUrls) ==
    IF newUrls = <<>> THEN set
    ELSE AddAllCounting(Append(set, Head(newUrls)), Tail(newUrls))

RECURSIVE AddAll(_, _)
\* newUrls.forEach(url => this.collectedUrls.add(url)) on an insertion-ordered Set
AddAll(set, newUrls) ==
    IF newUrls = <<>> THEN set
    ELSE AddAll(IF Head(newUrls) \in Range(set) THEN set ELSE Append(set, Head(newUrls)),
                Tail(newUrls))

\* extractArticleUrls: the page's article links, cleaned and deduplicated
ExtractArticleUrls(shown) == SortedSeq(shown)

\* What saveUrls writes: { collectedAt, totalUrls, urls }
Snapshot(set) == [kind |-> "json", totalUrls |-> Len(set), urls |-> set]

\* No file at the path
AbsentFile == [kind |-> "absent", totalUrls |-> 0, urls |-> <<>>]

\* A file JSON.parse rejects: truncated or partly written
CorruptFile == [kind |-> "corrupt", totalUrls |-> 0, urls |-> <<>>]

IsCheckpoint(f) == f.kind = "json"

\* loadExistingUrls: a missing or unparsable file is swallowed
LoadExistingUrls(f) == IF IsCheckpoint(f) THEN AddAll(<<>>, f.urls) ELSE <<>>

NoDResult == [urls |-> <<>>, totalCollected |-> 0, success |-> FALSE, error |-> "pending"]

\* As SuccessReturn, but a run that ends below the target is no success
SuccessReturnOnlyAtTarget(set) ==
    [urls |-> set, totalCollected |-> Len(set),
     success |-> (Len(set) >= options.targetCount), error |-> "none"]

\* return { urls, totalCollected, success: true }
SuccessReturn(set) ==
    [urls |-> set, totalCollected |-> Len(set), success |-> TRUE, error |-> "none"]

\* the catch block: return { urls, totalCollected, success: false, error }
FailureReturn(set, what) ==
    [urls |-> set, totalCollected |-> Len(set), success |-> FALSE, error |-> what]

MaxStagnant == IF mode = "scroll" THEN maxStagnantScrolls ELSE maxStagnantPages

MaxSteps == IF mode = "scroll" THEN MaxScrollAttempts ELSE MaxPages

\* the while condition
LoopTest ==
    /\ Len(collectedUrls) < options.targetCount
    /\ IF mode = "scroll" THEN steps < MaxSteps ELSE steps <= MaxSteps

\* What page p of the paginated source shows
ServePage(p) == IF site = <<>> THEN SUBSET SiteKeys ELSE {site[p]}

\* What the scrolled page shows after n scrolls: content is only appended
ServeScroll(n) ==
    IF site = <<>> THEN {v \in SUBSET SiteKeys : visible \subseteq v}
    ELSE {UNION {site[q] : q \in 1..(n + 1)}}

\* As SaveDueUrls, but without the test of the growth since the last save
SaveDueUrlsModuloOnly(count) == count % options.saveInterval = 0

\* The periodic save test of the loop body
SaveDueUrls(count) ==
    \/ count % options.saveInterval = 0
    \/ count - lastUrlCount >= options.saveInterval

\* As StepChecks, but without the target test
StepChecksNoTarget(count, found) ==
    LET stag == IF found = 0 THEN stagnant + 1 ELSE 0
    IN  /\ stagnant' = stag
        /\ IF found = 0 /\ stag >= MaxStagnant
           THEN dpc' = "final" /\ steps' = steps
           ELSE IF mode = "scroll"
                THEN dpc' = "advance" /\ steps' = steps
                ELSE dpc' = "loop" /\ steps' = steps + 1

\* As StepChecks, but the stagnation counter is never reset
StepChecksNoReset(count, found) ==
    LET stag == IF found = 0 THEN stagnant + 1 ELSE stagnant
    IN  /\ stagnant' = stag
        /\ IF (found = 0 /\ stag >= MaxStagnant) \/ count >= options.targetCount
           THEN dpc' = "final" /\ steps' = steps
           ELSE IF mode = "scroll"
                THEN dpc' = "advance" /\ steps' = steps
                ELSE dpc' = "loop" /\ steps' = steps + 1

\* The stagnation test, the target test and (pagination) currentPage++
StepChecks(count, found) ==
    LET stag == IF found = 0 THEN stagnant + 1 ELSE 0
    IN  /\ stagnant' = stag
        /\ IF (found = 0 /\ stag >= MaxStagnant) \/ count >= options.targetCount
           THEN dpc' = "final" /\ steps' = steps
           ELSE IF mode = "scroll"
                THEN dpc' = "advance" /\ steps' = steps
                ELSE dpc' = "loop" /\ steps' = steps + 1

\* init() (launch, mkdir, loadExistingUrls), newPage, goto(baseUrl) and the
\* loop's locals
DStart ==
    /\ dpc = "start"
    /\ LET loaded == IF options.resumeFromFile THEN LoadExistingUrls(file) ELSE <<>>
       IN  /\ collectedUrls' = loaded
           /\ seeded' = loaded
           /\ lastUrlCount' = Len(loaded)
    /\ steps' = IF mode = "scroll" THEN 0 ELSE 1
    /\ stagnant' = 0
    /\ visible' \in (IF mode = "scroll" THEN ServeScroll(0) ELSE {{}})
    /\ dpc' = "loop"
    /\ UNCHANGED <<mode, options, site, file, newUrlsFound, dresult, zeroRun, extractions, pipeVars, entryVars>>

\* chromium.launch raises (nothing loaded yet), or newPage / goto raises
\* (after loadExistingUrls)
DStartRaises ==
    /\ dpc = "start"
    /\ \/ /\ collectedUrls' = collectedUrls
          /\ dresult' = FailureReturn(collectedUrls', "launch")
       \/ /\ collectedUrls' = IF options.resumeFromFile
                              THEN LoadExistingUrls(file) ELSE <<>>
          /\ dresult' = FailureReturn(collectedUrls', "navigate")
    /\ seeded' = collectedUrls'
    /\ dpc' = "returned"
    /\ UNCHANGED <<mode, options, site, file, steps, lastUrlCount, stagnant,
                   newUrlsFound, visible, zeroRun, extractions, pipeVars, entryVars>>

\* One pass of the loop body up to the periodic save: (pagination: goto the
\* page and scroll it down,) extract, add, count the new keys
DExtract ==
    /\ dpc = "loop"
    /\ LoopTest
    /\ \E shown \in (IF mode = "scroll" THEN {visible} ELSE ServePage(steps)) :
          LET added == AddAll(collectedUrls, ExtractArticleUrls(shown))
              found == Len(added) - Len(collectedUrls)
          IN  /\ visible' = shown
              /\ collectedUrls' = added
              /\ newUrlsFound' = found
              /\ zeroRun' = IF found = 0 THEN zeroRun + 1 ELSE 0
              /\ extractions' = extractions + 1
              /\ IF SaveDueUrls(Len(added))
                 THEN dpc' = "save" /\ UNCHANGED <<steps, stagnant>>
                 ELSE StepChecks(Len(added), found)
    /\ UNCHANGED <<mode, options, site, file, lastUrlCount, dresult, seeded, pipeVars, entryVars>>

\* the periodic saveUrls succeeds; the rest of the loop body follows
DSave ==
    /\ dpc = "save"
    /\ file' = Snapshot(collectedUrls)
    /\ lastUrlCount' = Len(collectedUrls)
    /\ StepChecks(Len(collectedUrls), newUrlsFound)
    /\ UNCHANGED <<mode, options, site, collectedUrls, newUrlsFound, visible,
                   dresult, seeded, zeroRun, extractions, pipeVars, entryVars>>

\* scrollAndWait, then scrollAttempts++
DAdvance ==
    /\ dpc = "advance"
    /\ visible' \in ServeScroll(steps + 1)
    /\ steps' = steps + 1
    /\ dpc' = "loop"
    /\ UNCHANGED <<mode, options, site, file, collectedUrls, lastUrlCount, stagnant,
                   newUrlsFound, dresult, seeded, zeroRun, extractions, pipeVars, entryVars>>

\* the while condition fails
DLoopExit ==
    /\ dpc = "loop"
    /\ ~LoopTest
    /\ dpc' = "final"
    /\ UNCHANGED <<mode, options, site, file, collectedUrls, steps, lastUrlCount,
                   stagnant, newUrlsFound, visible, dresult, seeded, zeroRun, extractions, pipeVars, entryVars>>

\* As DFinalSave, but without the final saveUrls
DFinalNoSave ==
    /\ dpc = "final"
    /\ dresult' = SuccessReturn(collectedUrls)
    /\ dpc' = "returned"
    /\ UNCHANGED <<mode, options, site, file, collectedUrls, steps, lastUrlCount, stagnant,
                   newUrlsFound, visible, seeded, zeroRun, extractions, pipeVars, entryVars>>

\* the final saveUrls, page.close and the return
DFinalSave ==
    /\ dpc = "final"
    /\ file' = Snapshot(collectedUrls)
    /\ dresult' = SuccessReturn(collectedUrls)
    /\ dpc' = "returned"
    /\ UNCHANGED <<mode, options, site, collectedUrls, steps, lastUrlCount, stagnant,
                   newUrlsFound, visible, seeded, zeroRun, extractions, pipeVars, entryVars>>

\* page.goto or extractArticleUrls raises in the loop body, or scrollAndWait
DStepRaises ==
    /\ \/ dpc = "loop" /\ LoopTest
       \/ dpc = "advance"
    /\ dresult' = FailureReturn(collectedUrls, IF dpc = "loop" THEN "extract" ELSE "scroll")
    /\ dpc' = "returned"
    /\ UNCHANGED <<mode, options, site, file, collectedUrls, steps, lastUrlCount,
                   stagnant, newUrlsFound, visible, seeded, zeroRun, extractions, pipeVars, entryVars>>

\* What a rejected fs.writeFile may leave of the file: it is opened with
\* flag 'w', so a failure to open leaves it and a failure while writing
\* leaves it truncated or partly written
AfterFailedWrite(f) == {f, CorruptFile}

\* saveUrls raises (the periodic or the final one)
DSaveRaises ==
    /\ dpc \in {"save", "final"}
    /\ file' \in AfterFailedWrite(file)
    /\ dresult' = FailureReturn(collectedUrls, "save")
    /\ dpc' = "returned"
    /\ UNCHANGED <<mode, options, site, collectedUrls, steps, lastUrlCount, stagnant,
                   newUrlsFound, visible, seeded, zeroRun, extractions, pipeVars, entryVars>>

\* page.close raises after the final save
DCloseRaises ==
    /\ dpc = "final"
    /\ file' = Snapshot(collectedUrls)
    /\ dresult' = FailureReturn(collectedUrls, "close")
    /\ dpc' = "returned"
    /\ UNCHANGED <<mode, options, site, collectedUrls, steps, lastUrlCount, stagnant,
                   newUrlsFound, visible, seeded, zeroRun, extractions, pipeVars, entryVars>>

\* A collector just constructed, before collectArticleUrls
DiscStart ==
    /\ collectedUrls = <<>>
    /\ dpc = "start"
    /\ steps = 0
    /\ lastUrlCount = 0
    /\ stagnant = 0
    /\ newUrlsFound = 0
    /\ visible = {}
    /\ dresult = NoDResult
    /\ seeded = <<>>
    /\ zeroRun = 0
    /\ extractions = 0

\* No collector in use
DiscIdle ==
    /\ mode = "scroll"
    /\ options = [targetCount |-> 1, saveInterval |-> 1, resumeFromFile |-> FALSE]
    /\ site = <<>>
    /\ file = AbsentFile
    /\ dpc = "idle"
    /\ collectedUrls = <<>>
    /\ steps = 0
    /\ lastUrlCount = 0
    /\ stagnant = 0
    /\ newUrlsFound = 0
    /\ visible = {}
    /\ dresult = NoDResult
    /\ seeded = <<>>
    /\ zeroRun = 0
    /\ extractions = 0

\* No pipeline in use
PipeIdle ==
    /\ urls = <<>>
    /\ batchSize = 1
    /\ concurrency = 1
    /\ retries = 1
    /\ pc = "idle"
    /\ i = 0
    /\ results = <<>>
    /\ batchResults = <<>>
    /\ slots = <<>>
    /\ reordered = FALSE
    /\ progress = <<>>
    /\ saveError = FALSE
    /\ pacingDelays = 0
    /\ pauses = 0

\* new TrinidadExpressScraper(): timeout: options.timeout || 30000
DefaultTimeout == 30000

\* No failed-keys or URL file
NoInputFile == [shape |-> "absent", keys |-> <<>>]

\* No BulkScraper method called
RetryIdle ==
    /\ timeout = DefaultTimeout
    /\ entry = "none"
    /\ rpc = "idle"
    /\ inputFile = NoInputFile
    /\ original = [retries |-> 0, timeout |-> 0]
    /\ before = [retries |-> 0, timeout |-> 0]

\* No export under way
ExportIdle ==
    /\ entryPoint = "none"
    /\ exportFormat = "json"
    /\ xpc = "idle"
    /\ written = {}
    /\ exported = <<>>

\* No exported function of index.ts called
HostIdle ==
    /\ call = "none"
    /\ phase = "idle"
    /\ remaining = 0
    /\ urlCollectorBrowser = FALSE
    /\ articleScraperBrowser = FALSE
    /\ openBrowsers = 0
    /\ interrupted = {}

\* No string function applied
StrIdle ==
    /\ input = <<>>
    /\ output = <<>>
    /\ back = <<>>
    /\ strSet = <<>>
    /\ sizeBefore = 0
    /\ spc = "idle"

\* No scrapeArticle call followed page by page
PagesIdle == fetches = <<>>

\* The checkpoint files a run may find: none, an unreadable one, or what an
\* earlier run saved (its keys in key order)
Files ==
    {AbsentFile, CorruptFile} \cup {Snapshot(SortedSeq(S)) : S \in SUBSET SiteKeys}

InitDiscovery ==
    /\ PipeIdle
    /\ mode \in {"scroll", "pagination"}
    /\ options \in [targetCount : 1..MaxTarget, saveInterval : 1..MaxSaveInterval,
                    resumeFromFile : BOOLEAN]
    /\ site = <<>>
    /\ file \in Files
    /\ DiscStart
    /\ RetryIdle
    /\ ExportIdle
    /\ HostIdle
    /\ requested = 1
    /\ StrIdle
    /\ PagesIdle

NextDiscovery ==
    \/ DStart
    \/ DStartRaises
    \/ DExtract
    \/ DSave
    \/ DAdvance
    \/ DLoopExit
    \/ DFinalSave
    \/ DStepRaises
    \/ DSaveRaises
    \/ DCloseRaises

SpecDiscovery == InitDiscovery /\ [][NextDiscovery]_vars

(***************************************************************************)
(* Resumed runs against a source of fixed content: page p lists key p      *)
(* (pagination), scrolling n times shows the keys 1..n+1 (scroll).  The    *)
(* checkpoint holds the first c keys, as a run interrupted after c of them *)
(* left it.                                                                *)
(***************************************************************************)
ResumeSiteLen == MaxScrollAttempts + 1

ResumeSite == [p \in 1..ResumeSiteLen |-> {p}]

InitResume ==
    /\ PipeIdle
    /\ mode \in {"scroll", "pagination"}
    /\ options \in [targetCount : 1..(ResumeSiteLen + 1),
                    saveInterval : 1..MaxSaveInterval,
                    resumeFromFile : BOOLEAN]
    /\ site = ResumeSite
    /\ file \in {AbsentFile} \cup {Snapshot([k \in 1..c |-> k]) : c \in 0..ResumeSiteLen}
    /\ DiscStart
    /\ RetryIdle
    /\ ExportIdle
    /\ HostIdle
    /\ requested = 1
    /\ StrIdle
    /\ PagesIdle

SpecResume == InitResume /\ [][NextDiscovery]_vars

(***************************************************************************)
(* The pipeline's specification.                                           *)
(***************************************************************************)
PipeStart ==
    /\ pc = "loop"
    /\ i = 0
    /\ results = <<>>
    /\ batchResults = <<>>
    /\ slots = <<>>
    /\ reordered = FALSE
    /\ progress = <<>>
    /\ saveError = FALSE
    /\ pacingDelays = 0
    /\ pauses = 0

\* The key lists of the model: every list over Keys up to MaxUrls (lists
\* with repeated keys, as a URL file may hold), and the lists 1..n of
\* distinct keys up to MaxDistinctUrls (as discovery returns them).
UrlLists ==
    SeqsUpTo(Keys, MaxUrls) \cup {[k \in 1..n |-> k] : n \in 0..MaxDistinctUrls}

Init ==
    /\ urls \in UrlLists
    /\ batchSize \in 1..MaxBatchSize
    /\ concurrency \in 1..MaxConcurrency
    /\ retries \in 1..MaxRetries
    /\ PipeStart
    /\ DiscIdle
    /\ RetryIdle
    /\ ExportIdle
    /\ HostIdle
    /\ requested = concurrency
    /\ StrIdle
    /\ PagesIdle

Next ==
    \/ BatchStarts
    \/ \E j \in 1..MaxBatchSize : StartFetch(j)
    \/ \E j \in 1..MaxBatchSize : AttemptSucceeds(j)
    \/ \E j \in 1..MaxBatchSize : AttemptFails(j)
    \/ \E j \in 1..MaxBatchSize : BackoffEnds(j)
    \/ SeqDelayEnds
    \/ MapResolves
    \/ AppendResults
    \/ SaveProgressOk
    \/ SaveProgressFails
    \/ PauseEnds
    \/ Returns

Spec == Init /\ [][Next]_vars

(***************************************************************************)
(* BulkScraper.retryFailedUrls and BulkScraper.scrapeFromUrlFile: a key    *)
(* list read from a file and run through scrapeInBatches.                  *)
(***************************************************************************)
\* Math.max(originalRetries + 2, 5)
RetryFloor == 5

\* Math.max(originalTimeout * 1.5, 45000)
TimeoutFloor == 45000

Max(a, b) == IF a > b THEN a ELSE b

\* As AmplifiedRetries, but the floor whatever the original
AmplifiedRetriesFloorOnly(r) == RetryFloor

AmplifiedRetries(r) == Max(r + 2, RetryFloor)

\* originalTimeout * 1.5, for timeouts of an even number of ms
AmplifiedTimeout(t) == Max((3 * t) \div 2, TimeoutFloor)

\* As RestoredSettings, but the settings of the retry run are kept
RestoredSettingsKept == [retries |-> retries, timeout |-> timeout]

\* this.articleScraper['options'].retries = originalRetries; ... .timeout = originalTimeout
RestoredSettings == original

\* What the file at the path holds.  shape: "object" is { urls: [...] },
\* "array" a bare array, "noUrls" an object without urls, "badUrls" an
\* object whose urls is not an array, "unparsable" what JSON.parse rejects,
\* "absent" no file; keys: the keys listed.
InputFile(shape, keys) == [shape |-> shape, keys |-> keys]

\* retryFailedUrls: const urls = parsed.urls || []
RetryParsedUrls(f) == IF f.shape = "object" THEN f.keys ELSE <<>>

\* retryFailedUrls raises: readFile, JSON.parse or the Array.isArray test
RetryRejects(f) == f.shape \in {"absent", "unparsable", "badUrls"}

\* scrapeFromUrlFile: const urls = parsed.urls || parsed
UrlFileParsedUrls(f) == IF f.shape \in {"object", "array"} THEN f.keys ELSE <<>>

\* scrapeFromUrlFile raises: readFile, JSON.parse or the Array.isArray test
UrlFileRejects(f) == f.shape \in {"absent", "unparsable", "badUrls", "noUrls"}

\* scrapeInBatches is entered with the key list given
EnterScrapeInBatches(keys) ==
    /\ urls' = keys
    /\ pc' = "loop"
    /\ rpc' = "running"
    /\ UNCHANGED <<batchSize, concurrency, i, results, batchResults, slots,
                   reordered, progress, saveError, pacingDelays, pauses>>

\* retryFailedUrls up to its call of scrapeInBatches
RetryLoad ==
    /\ rpc = "called"
    /\ entry = "retry"
    /\ ~RetryRejects(inputFile)
    /\ original' = [retries |-> retries, timeout |-> timeout]
    /\ retries' = AmplifiedRetries(retries)
    /\ timeout' = AmplifiedTimeout(timeout)
    /\ EnterScrapeInBatches(RetryParsedUrls(inputFile))
    /\ UNCHANGED <<entry, inputFile, before, discVars, exportVars, hostVars, strVars, pageVars>>

\* scrapeFromUrlFile up to its call of scrapeInBatches
UrlFileLoad ==
    /\ rpc = "called"
    /\ entry = "urlfile"
    /\ ~UrlFileRejects(inputFile)
    /\ EnterScrapeInBatches(UrlFileParsedUrls(inputFile))
    /\ UNCHANGED <<retries, timeout, entry, inputFile, original, before,
                   discVars, exportVars, hostVars, strVars, pageVars>>

\* the file cannot be read or parsed, or its urls are no array: the error
\* leaves the method
LoadRaises ==
    /\ rpc = "called"
    /\ IF entry = "retry" THEN RetryRejects(inputFile) ELSE UrlFileRejects(inputFile)
    /\ rpc' = "raised"
    /\ UNCHANGED <<pipeVars, timeout, entry, inputFile, original, before,
                   discVars, exportVars, hostVars, strVars, pageVars>>

\* scrapeInBatches has returned to retryFailedUrls: restore and return
RetryRestore ==
    /\ rpc = "running"
    /\ entry = "retry"
    /\ pc = "done"
    /\ retries' = RestoredSettings.retries
    /\ timeout' = RestoredSettings.timeout
    /\ rpc' = "returned"
    /\ UNCHANGED <<urls, batchSize, concurrency, pc, i, results, batchResults,
                   slots, reordered, progress, saveError, pacingDelays, pauses,
                   entry, inputFile, original, before, discVars, exportVars, hostVars, strVars, pageVars>>

\* scrapeInBatches has returned to scrapeFromUrlFile, which returns
UrlFileReturns ==
    /\ rpc = "running"
    /\ entry = "urlfile"
    /\ pc = "done"
    /\ rpc' = "returned"
    /\ UNCHANGED <<pipeVars, timeout, entry, inputFile, original, before,
                   discVars, exportVars, hostVars, strVars, pageVars>>

\* the error of a failed progress write leaves scrapeInBatches and the
\* method that called it; no statement of the method runs after it
RunRaises ==
    /\ rpc = "running"
    /\ pc = "aborted"
    /\ rpc' = "raised"
    /\ UNCHANGED <<pipeVars, timeout, entry, inputFile, original, before,
                   discVars, exportVars, hostVars, strVars, pageVars>>

\* The timeouts a scraper of the model is constructed with (ms)
Timeouts == {20000, 40000}

\* The files of the model
InputFiles ==
    {InputFile(sh, <<>>) : sh \in {"absent", "unparsable", "badUrls", "noUrls"}}
    \cup {InputFile(sh, [k \in 1..n |-> k]) : sh \in {"object", "array"}, n \in 0..MaxFileKeys}

InitRetry ==
    /\ urls = <<>>
    /\ batchSize \in 1..MaxFileKeys
    /\ concurrency \in 1..MaxConcurrency
    /\ retries \in 1..MaxOriginalRetries
    /\ pc = "idle"
    /\ i = 0
    /\ results = <<>>
    /\ batchResults = <<>>
    /\ slots = <<>>
    /\ reordered = FALSE
    /\ progress = <<>>
    /\ saveError = FALSE
    /\ pacingDelays = 0
    /\ pauses = 0
    /\ timeout \in Timeouts
    /\ entry \in {"retry", "urlfile"}
    /\ rpc = "called"
    /\ inputFile \in InputFiles
    /\ original = [retries |-> 0, timeout |-> 0]
    /\ before = [retries |-> retries, timeout |-> timeout]
    /\ DiscIdle
    /\ ExportIdle
    /\ HostIdle
    /\ requested = concurrency
    /\ StrIdle
    /\ PagesIdle

NextRetry ==
    \/ RetryLoad
    \/ UrlFileLoad
    \/ LoadRaises
    \/ RetryRestore
    \/ UrlFileReturns
    \/ RunRaises
    \/ Next

SpecRetry == InitRetry /\ [][NextRetry]_vars

(***************************************************************************)
(* DataExporter and the export step of the entry points bulkScrape         *)
(* (runFullPipeline), scrapeArticles and retryFailedUrls of index.ts.      *)
(***************************************************************************)
\* results.filter(r => !r.success)
FailedResults(res) == SelectSeq(res, LAMBDA r : ~r.success)

\* The empty string as a key
EmptyUrl == 0

\* The placeholder 'unknown'
UnknownUrl == -1

\* r.data?.url || 'unknown': every result of scrapeArticle carries
\* data.url, and the empty string is falsy
OrUnknown(u) == IF u = EmptyUrl THEN UnknownUrl ELSE u

\* As FailedUrlsOf, but over all results
UrlsOfEveryResult(res) == [n \in 1..Len(res) |-> OrUnknown(res[n].url)]

\* failedResults.map(r => r.data?.url || 'unknown')
FailedUrlsOf(res) ==
    [n \in 1..Len(FailedResults(res)) |-> OrUnknown(FailedResults(res)[n].url)]

\* A file of the output directory: its kind, the call that wrote it, the
\* number of records it holds and the failed keys it lists
Artifact(kind, name, count, failed) ==
    [kind |-> kind, name |-> name, count |-> count, urls |-> failed]

\* exportToJSON: the export file, and the failed-URLs file when a result failed
ExportToJSONWrites(res, name) ==
    {Artifact("json", name, Len(res), FailedUrlsOf(res))}
    \cup (IF Len(FailedResults(res)) > 0
          THEN {Artifact("failed", name, Len(FailedResults(res)), FailedUrlsOf(res))}
          ELSE {})

\* exportToCSV: the rows of the successful results, no file when there is none
ExportToCSVWrites(res, name) ==
    IF Len(res) = Len(FailedResults(res)) THEN {}
    ELSE {Artifact("csv", name, Len(res) - Len(FailedResults(res)), <<>>)}

\* The batch numbers at which scrapeInBatches saves progress over n keys
\* in batches of b
SaveBatches(n, b) ==
    {k \in 1..CeilDiv(n, b) : k % ProgressEvery = 0 \/ k = CeilDiv(n, b)}

\* The files the progress saves of a scrapeInBatches run have written:
\* saveProgressResults exports the results accumulated so far with exportToJSON
ProgressWrites(res, b) ==
    UNION {ExportToJSONWrites(SubSeq(res, 1, Min(k * b, Len(res))), <<"progress", k>>) :
               k \in SaveBatches(Len(res), b)}

\* the switch on the export format
ExportSwitch ==
    /\ xpc = "start"
    /\ xpc' = IF exportFormat = "csv" THEN "csv" ELSE "json"
    /\ UNCHANGED <<entryPoint, exportFormat, written, exported, pipeVars, discVars, retryVars,
                   hostVars, strVars, pageVars>>

\* exportToJSON(results), alone or as the first half of exportBoth
ExportToJSON ==
    /\ xpc = "json"
    /\ written' = written \cup ExportToJSONWrites(results, <<"final", 0>>)
    /\ xpc' = IF exportFormat = "both" THEN "csv" ELSE "done"
    /\ UNCHANGED <<entryPoint, exportFormat, exported, pipeVars, discVars, retryVars,
                   hostVars, strVars, pageVars>>

\* exportToCSV(results), alone or as the second half of exportBoth
ExportToCSV ==
    /\ xpc = "csv"
    /\ written' = written \cup ExportToCSVWrites(results, <<"final", 0>>)
    /\ xpc' = "done"
    /\ UNCHANGED <<entryPoint, exportFormat, exported, pipeVars, discVars, retryVars,
                   hostVars, strVars, pageVars>>

\* a write of the export rejects: the error leaves the entry point
ExportRaises ==
    /\ xpc \in {"json", "csv"}
    /\ xpc' = "raised"
    /\ UNCHANGED <<entryPoint, exportFormat, written, exported, pipeVars, discVars, retryVars,
                   hostVars, strVars, pageVars>>

\* The result lists of the model: per key a success or a failure
ResultLists ==
    UNION {[1..n -> {SuccessResult(k) : k \in Keys} \cup {FailureResult(k, 1) : k \in Keys}] :
               n \in 0..MaxUrls}

\* The state in which an entry point starts its export: bulkScrape and
\* retryFailedUrls after scrapeInBatches has returned the results (and saved
\* progress on its way), scrapeArticles after scrapeMultipleArticles has.
InitExport ==
    /\ entryPoint \in {"bulkScrape", "scrapeArticles", "retryFailedUrls"}
    /\ exportFormat \in {"json", "csv", "both"}
    /\ results \in ResultLists
    /\ exported = results
    /\ urls = [n \in 1..Len(results) |-> results[n].url]
    /\ batchSize \in (IF entryPoint = "scrapeArticles" THEN {1} ELSE 1..MaxBatchSize)
    /\ concurrency = 1
    /\ retries = 1
    /\ pc = "done"
    /\ i = batchSize * CeilDiv(Len(urls), batchSize)
    /\ batchResults = <<>>
    /\ slots = <<>>
    /\ reordered = FALSE
    /\ progress = IF entryPoint = "scrapeArticles" THEN <<>>
                  ELSE [n \in 1..Cardinality(SaveBatches(Len(urls), batchSize)) |->
                           LET k == SortedSeq(SaveBatches(Len(urls), batchSize))[n]
                           IN  <<k, Min(k * batchSize, Len(urls))>>]
    /\ saveError = FALSE
    /\ pacingDelays = 0
    /\ pauses = IF entryPoint = "scrapeArticles" \/ urls = <<>> THEN 0
                ELSE CeilDiv(Len(urls), batchSize) - 1
    /\ written = IF entryPoint = "scrapeArticles" THEN {}
                 ELSE ProgressWrites(results, batchSize)
    /\ xpc = "start"
    /\ DiscIdle
    /\ RetryIdle
    /\ HostIdle
    /\ requested = 1
    /\ StrIdle
    /\ PagesIdle

NextExport ==
    \/ ExportSwitch
    \/ ExportToJSON
    \/ ExportToCSV
    \/ ExportRaises

SpecExport == InitExport /\ [][NextExport]_vars


(***************************************************************************)
(* A request to stop the process during scrapeInBatches.  No file of the   *)
(* repository registers a signal handler or tests a stop flag, so the      *)
(* request ends the process where it stands: what is in memory is gone,    *)
(* the progress files stay.                                                *)
(***************************************************************************)
StopRequested ==
    /\ pc \in {"loop", "seq", "seqDelay", "map", "append", "save", "pause"}
    /\ pc' = "killed"
    /\ interrupted' = {j \in DOMAIN slots : slots[j].st = "attempt"}
    /\ slots' = <<>>
    /\ batchResults' = <<>>
    /\ results' = <<>>
    /\ UNCHANGED <<urls, batchSize, concurrency, retries, i, reordered, progress,
                   saveError, pacingDelays, pauses, discVars, retryVars, exportVars,
                   call, phase, remaining, requested, urlCollectorBrowser,
                   articleScraperBrowser, openBrowsers, strVars, pageVars>>

NextStop == StopRequested \/ Next

SpecStop == Init /\ [][NextStop]_vars

(***************************************************************************)
(* index.ts scrapeArticles: one call of scrapeMultipleArticles for the     *)
(* whole key list, without a concurrency argument.                         *)
(***************************************************************************)
\* scrapeMultipleArticles(urls: string[], concurrency: number = 1)
DefaultConcurrency == 1

\* const results = await scraper.scrapeMultipleArticles(urls) has returned
ArticlesReturn ==
    /\ pc = "append"
    /\ results' = batchResults
    /\ pc' = "done"
    /\ UNCHANGED <<urls, batchSize, concurrency, retries, i, batchResults, slots,
                   reordered, progress, saveError, pacingDelays, pauses,
                   discVars, entryVars>>

InitArticles ==
    /\ urls \in SeqsUpTo(Keys, MaxUrls)
    /\ batchSize = Max(1, Len(urls))
    /\ requested \in 1..MaxConcurrency
    /\ concurrency = DefaultConcurrency
    /\ retries \in 1..MaxRetries
    /\ pc = IF urls = <<>> THEN "append" ELSE "seq"
    /\ i = 0
    /\ results = <<>>
    /\ batchResults = <<>>
    /\ slots = [j \in 1..Len(urls) |-> PendingSlot(urls[j])]
    /\ reordered = FALSE
    /\ progress = <<>>
    /\ saveError = FALSE
    /\ pacingDelays = 0
    /\ pauses = 0
    /\ DiscIdle
    /\ RetryIdle
    /\ ExportIdle
    /\ HostIdle
    /\ StrIdle
    /\ PagesIdle

NextArticles ==
    \/ \E j \in 1..MaxUrls : StartFetch(j)
    \/ \E j \in 1..MaxUrls : AttemptSucceeds(j)
    \/ \E j \in 1..MaxUrls : AttemptFails(j)
    \/ \E j \in 1..MaxUrls : BackoffEnds(j)
    \/ SeqDelayEnds
    \/ ArticlesReturn

SpecArticles == InitArticles /\ [][NextArticles]_vars

(***************************************************************************)
(* The exported functions of index.ts and BulkScraper.collectUrlsOnly,     *)
(* with the browsers they launch and close.  What the collector, the       *)
(* pipeline and the exporter do inside is reduced to how they end.         *)
(***************************************************************************)
MaxCallUrls == 3

EntryPoints ==
    {"scrapeArticles", "collectUrls", "bulkScrape", "collectUrlsOnly", "retryFailedUrls"}

\* new BulkScraper(): concurrency: options.concurrency || 3
BulkDefaultConcurrency == 3

\* The concurrency scrapeMultipleArticles runs with under each entry point
EffectiveConcurrency ==
    CASE call = "scrapeArticles"  -> DefaultConcurrency
      [] call = "retryFailedUrls" -> BulkDefaultConcurrency
      [] OTHER                    -> requested

\* URLCollector.close(): if (this.browser) { close it; this.browser = null }
CloseCollector(n) == IF urlCollectorBrowser THEN n - 1 ELSE n

\* TrinidadExpressScraper.close()
CloseScraper(n) == IF articleScraperBrowser THEN n - 1 ELSE n

\* BulkScraper.cleanup(): urlCollector.close(), then articleScraper.close()
Cleanup ==
    /\ openBrowsers' = CloseScraper(CloseCollector(openBrowsers))
    /\ urlCollectorBrowser' = FALSE
    /\ articleScraperBrowser' = FALSE

\* collectArticleUrls: init() launches the collector's browser; the call
\* returns a result with success true or false and closes only its page
EntryCollects ==
    /\ call \in {"collectUrls", "bulkScrape", "collectUrlsOnly"}
    /\ phase = "called"
    /\ urlCollectorBrowser' = TRUE
    /\ openBrowsers' = openBrowsers + 1
    /\ \E success \in BOOLEAN :
          phase' = IF success THEN "collected" ELSE "collectFailed"
    /\ UNCHANGED <<call, remaining, requested, articleScraperBrowser, interrupted,
                   pipeVars, discVars, retryVars, exportVars, strVars,
                   pageVars>>

\* collectUrls: return result inside try, collector.close() in finally
CollectUrlsFinally ==
    /\ call = "collectUrls"
    /\ phase \in {"collected", "collectFailed"}
    /\ openBrowsers' = CloseCollector(openBrowsers)
    /\ urlCollectorBrowser' = FALSE
    /\ phase' = "returned"
    /\ UNCHANGED <<call, remaining, requested, articleScraperBrowser, interrupted,
                   pipeVars, discVars, retryVars, exportVars, strVars,
                   pageVars>>

\* collectUrlsOnly: urlCollector.close(), then the test of result.success
CollectUrlsOnlyCloses ==
    /\ call = "collectUrlsOnly"
    /\ phase \in {"collected", "collectFailed"}
    /\ openBrowsers' = CloseCollector(openBrowsers)
    /\ urlCollectorBrowser' = FALSE
    /\ phase' = IF phase = "collected" THEN "returned" ELSE "raised"
    /\ UNCHANGED <<call, remaining, requested, articleScraperBrowser, interrupted,
                   pipeVars, discVars, retryVars, exportVars, strVars,
                   pageVars>>

\* runFullPipeline: if (!urlCollection.success) throw, else scrapeInBatches
PipelineAfterCollection ==
    /\ call = "bulkScrape"
    /\ phase \in {"collected", "collectFailed"}
    /\ phase' = IF phase = "collected" THEN "scraping" ELSE "raised"
    /\ UNCHANGED <<call, remaining, requested, urlCollectorBrowser,
                   articleScraperBrowser, openBrowsers, interrupted,
                   pipeVars, discVars, retryVars, exportVars, strVars,
                   pageVars>>

\* scrapeArticles: scraper.scrapeMultipleArticles(urls) inside try
ScrapeArticlesStarts ==
    /\ call = "scrapeArticles"
    /\ phase = "called"
    /\ phase' = "scraping"
    /\ UNCHANGED <<call, remaining, requested, urlCollectorBrowser,
                   articleScraperBrowser, openBrowsers, interrupted,
                   pipeVars, discVars, retryVars, exportVars, strVars,
                   pageVars>>

\* retryFailedUrls: BulkScraper.retryFailedUrls reads the file, which may
\* raise, and goes on to scrapeInBatches
RetryCallLoads ==
    /\ call = "retryFailedUrls"
    /\ phase = "called"
    /\ \E loaded \in BOOLEAN :
          phase' = IF loaded THEN "scraping" ELSE "unwinding"
    /\ UNCHANGED <<call, remaining, requested, urlCollectorBrowser,
                   articleScraperBrowser, openBrowsers, interrupted,
                   pipeVars, discVars, retryVars, exportVars, strVars,
                   pageVars>>

\* The next w keys are scraped together, w at most the concurrency and at
\* most what the batch holds.  Each scrapeArticle awaits init(), which
\* launches a browser when this.browser is not set: the w calls started
\* together all find it unset and launch one each, and the field keeps one.
ScrapeWave ==
    /\ phase = "scraping"
    /\ remaining > 0
    /\ \E w \in 1..Min(EffectiveConcurrency, remaining) :
          /\ remaining' = remaining - w
          /\ openBrowsers' = IF articleScraperBrowser THEN openBrowsers
                             ELSE openBrowsers + w
    /\ articleScraperBrowser' = TRUE
    /\ UNCHANGED <<call, phase, requested, urlCollectorBrowser, interrupted,
                   pipeVars, discVars, retryVars, exportVars, strVars,
                   pageVars>>

\* saveProgressResults raises after a batch of scrapeInBatches
CheckpointWriteRaises ==
    /\ call \in {"bulkScrape", "retryFailedUrls"}
    /\ phase = "scraping"
    /\ articleScraperBrowser
    /\ phase' = "unwinding"
    /\ UNCHANGED <<call, remaining, requested, urlCollectorBrowser,
                   articleScraperBrowser, openBrowsers, interrupted,
                   pipeVars, discVars, retryVars, exportVars, strVars,
                   pageVars>>

\* scrapeMultipleArticles / scrapeInBatches returns the results
ScrapingReturns ==
    /\ phase = "scraping"
    /\ remaining = 0
    /\ phase' = "export"
    /\ UNCHANGED <<call, remaining, requested, urlCollectorBrowser,
                   articleScraperBrowser, openBrowsers, interrupted,
                   pipeVars, discVars, retryVars, exportVars, strVars,
                   pageVars>>

\* the export switch returns, or a write of it raises
EntryExports ==
    /\ phase = "export"
    /\ \E ok \in BOOLEAN : phase' = IF ok THEN "exported" ELSE "unwinding"
    /\ UNCHANGED <<call, remaining, requested, urlCollectorBrowser,
                   articleScraperBrowser, openBrowsers, interrupted,
                   pipeVars, discVars, retryVars, exportVars, strVars,
                   pageVars>>

\* scrapeArticles: finally { await scraper.close() }
ScrapeArticlesFinally ==
    /\ call = "scrapeArticles"
    /\ phase \in {"exported", "unwinding"}
    /\ openBrowsers' = CloseScraper(openBrowsers)
    /\ articleScraperBrowser' = FALSE
    /\ phase' = IF phase = "exported" THEN "returned" ELSE "raised"
    /\ UNCHANGED <<call, remaining, requested, urlCollectorBrowser, interrupted,
                   pipeVars, discVars, retryVars, exportVars, strVars,
                   pageVars>>

\* retryFailedUrls: finally { await bulkScraper['cleanup']() }
RetryFinally ==
    /\ call = "retryFailedUrls"
    /\ phase \in {"exported", "unwinding"}
    /\ Cleanup
    /\ phase' = IF phase = "exported" THEN "returned" ELSE "raised"
    /\ UNCHANGED <<call, remaining, requested, interrupted,
                   pipeVars, discVars, retryVars, exportVars, strVars,
                   pageVars>>

\* runFullPipeline: await this.cleanup() after the export, then return
PipelineCleanup ==
    /\ call = "bulkScrape"
    /\ phase = "exported"
    /\ Cleanup
    /\ phase' = "returned"
    /\ UNCHANGED <<call, remaining, requested, interrupted,
                   pipeVars, discVars, retryVars, exportVars, strVars,
                   pageVars>>

\* runFullPipeline and bulkScrape have no try block: an error of
\* scrapeInBatches or exportResults leaves them as it is
PipelineRaises ==
    /\ call = "bulkScrape"
    /\ phase = "unwinding"
    /\ phase' = "raised"
    /\ UNCHANGED <<call, remaining, requested, urlCollectorBrowser,
                   articleScraperBrowser, openBrowsers, interrupted,
                   pipeVars, discVars, retryVars, exportVars, strVars,
                   pageVars>>

InitEntry ==
    /\ call \in EntryPoints
    /\ phase = "called"
    /\ remaining \in 0..MaxCallUrls
    /\ requested \in 1..MaxConcurrency
    /\ urlCollectorBrowser = FALSE
    /\ articleScraperBrowser = FALSE
    /\ openBrowsers = 0
    /\ interrupted = {}
    /\ PipeIdle
    /\ DiscIdle
    /\ RetryIdle
    /\ ExportIdle
    /\ StrIdle
    /\ PagesIdle

NextEntry ==
    \/ EntryCollects
    \/ CollectUrlsFinally
    \/ CollectUrlsOnlyCloses
    \/ PipelineAfterCollection
    \/ ScrapeArticlesStarts
    \/ RetryCallLoads
    \/ ScrapeWave
    \/ CheckpointWriteRaises
    \/ ScrapingReturns
    \/ EntryExports
    \/ ScrapeArticlesFinally
    \/ RetryFinally
    \/ PipelineCleanup
    \/ PipelineRaises

SpecEntry == InitEntry /\ [][NextEntry]_vars

(***************************************************************************)
(* extractArticleUrls: the cleaning of a link and its insertion into       *)
(* collectedUrls.  A URL is a sequence of characters.                      *)
(***************************************************************************)
MaxKeyLen == 4

UrlChars == {"a", "/", "?"}

RawKeys == SeqsUpTo(UrlChars, MaxKeyLen)

\* As CleanUrl, but cut at the last "?"
CleanUrlAtLast(u) ==
    LET marks == {k \in DOMAIN u : u[k] = "?"}
    IN  IF marks = {} THEN u
        ELSE SubSeq(u, 1, (CHOOSE k \in marks : \A m \in marks : m <= k) - 1)

\* absoluteUrl.split('?')[0]
CleanUrl(u) ==
    LET marks == {k \in DOMAIN u : u[k] = "?"}
    IN  IF marks = {} THEN u
        ELSE SubSeq(u, 1, (CHOOSE k \in marks : \A m \in marks : k <= m) - 1)

\* what extractArticleUrls returns for a page with `copies` links of href u:
\* every link cleaned, then [...new Set(urls)]
ExtractLinks(u, copies) == AddAll(<<>>, [n \in 1..copies |-> CleanUrl(u)])

\* The link is cleaned
CleanOnce ==
    /\ spc = "link"
    /\ output' = CleanUrl(input)
    /\ spc' = "cleaned"
    /\ UNCHANGED <<input, back, strSet, sizeBefore, pipeVars, discVars,
                   retryVars, exportVars, hostVars, pageVars>>

\* The cleaned link is shown by a page and cleaned again
CleanAgain ==
    /\ spc = "cleaned"
    /\ back' = CleanUrl(output)
    /\ spc' = "recleaned"
    /\ UNCHANGED <<input, output, strSet, sizeBefore, pipeVars, discVars,
                   retryVars, exportVars, hostVars, pageVars>>

\* An extraction of a page that shows the link once or twice:
\* newUrls.forEach(url => this.collectedUrls.add(url))
InsertLink ==
    /\ spc \in {"recleaned", "inserted"}
    /\ \E copies \in 1..2 : strSet' = AddAll(strSet, ExtractLinks(input, copies))
    /\ spc' = IF spc = "recleaned" THEN "inserted" ELSE "insertedTwice"
    /\ UNCHANGED <<input, output, back, sizeBefore, pipeVars, discVars,
                   retryVars, exportVars, hostVars, pageVars>>

\* The key sets the link meets: empty, or holding cleaned URLs already
KeySets == {<<>>, << <<"a">> >>, << <<"a">>, <<"/", "a">> >>}

InitClean ==
    /\ input \in RawKeys
    /\ output = <<>>
    /\ back = <<>>
    /\ strSet \in KeySets
    /\ sizeBefore = Len(strSet)
    /\ spc = "link"
    /\ PipeIdle
    /\ DiscIdle
    /\ RetryIdle
    /\ ExportIdle
    /\ HostIdle
    /\ requested = 1
    /\ PagesIdle

NextClean == CleanOnce \/ CleanAgain \/ InsertLink

SpecClean == InitClean /\ [][NextClean]_vars

(***************************************************************************)
(* DataExporter.escapeCsvField, and the reading of a CSV field.            *)
(***************************************************************************)
MaxFieldLen == 3

Quote == "\""

FieldChars == {"a", ",", Quote, "\n"}

Fields == SeqsUpTo(FieldChars, MaxFieldLen)

\* field.includes(',') || field.includes('\n') || field.includes('"')
NeedsQuoting(f) == \E k \in DOMAIN f : f[k] \in {",", "\n", Quote}

RECURSIVE DoubleQuotes(_)
\* field.replace(/"/g, '""')
DoubleQuotes(f) ==
    IF f = <<>> THEN <<>>
    ELSE (IF Head(f) = Quote THEN <<Quote, Quote>> ELSE <<Head(f)>>) \o DoubleQuotes(Tail(f))

\* As escapeCsvField, but the field is wrapped as it is
escapeCsvFieldAsIs(f) ==
    IF NeedsQuoting(f) THEN <<Quote>> \o f \o <<Quote>> ELSE f

escapeCsvField(f) ==
    IF NeedsQuoting(f) THEN <<Quote>> \o DoubleQuotes(f) \o <<Quote>> ELSE f

RECURSIVE Undouble(_)
\* The content of a quoted field: a pair of quotes stands for one quote, a
\* single quote ends the content
Undouble(t) ==
    IF t = <<>> THEN <<>>
    ELSE IF Head(t) # Quote THEN <<Head(t)>> \o Undouble(Tail(t))
    ELSE IF Len(t) >= 2 /\ t[2] = Quote THEN <<Quote>> \o Undouble(Tail(Tail(t)))
    ELSE <<>>

\* The value a CSV reader gives a field: what stands between the quotes
\* when the field begins with a quote, the field itself otherwise
CsvUnescape(t) ==
    IF t # <<>> /\ Head(t) = Quote THEN Undouble(Tail(t)) ELSE t

\* escapeCsvField is applied to a field of a row
CsvEscapes ==
    /\ spc = "field"
    /\ output' = escapeCsvField(input)
    /\ spc' = "escaped"
    /\ UNCHANGED <<input, back, strSet, sizeBefore, pipeVars, discVars,
                   retryVars, exportVars, hostVars, pageVars>>

\* The written field is read back
CsvReads ==
    /\ spc = "escaped"
    /\ back' = CsvUnescape(output)
    /\ spc' = "read"
    /\ UNCHANGED <<input, output, strSet, sizeBefore, pipeVars, discVars,
                   retryVars, exportVars, hostVars, pageVars>>

InitCsv ==
    /\ input \in Fields
    /\ output = <<>>
    /\ back = <<>>
    /\ strSet = <<>>
    /\ sizeBefore = 0
    /\ spc = "field"
    /\ PipeIdle
    /\ DiscIdle
    /\ RetryIdle
    /\ ExportIdle
    /\ HostIdle
    /\ requested = 1
    /\ PagesIdle

NextCsv == CsvEscapes \/ CsvReads

SpecCsv == InitCsv /\ [][NextCsv]_vars

(***************************************************************************)
(* scrapeArticle page by page: the calls of one scraper that run at the    *)
(* same time, each with the pages its attempts have opened.                *)
(***************************************************************************)
MaxFetches == 2

RECURSIVE PagesOfFirst(_)
\* The pages the first n calls have open
PagesOfFirst(n) == IF n = 0 THEN 0 ELSE fetches[n].pages + PagesOfFirst(n - 1)

\* The open pages of the scraper's browser
OpenPages == PagesOfFirst(Len(fetches))

\* The calls that have started and not returned
FetchesInFlight ==
    Cardinality({f \in DOMAIN fetches : fetches[f].pos \in {"init", "page", "backoff"}})

\* the catch block: the result at the last attempt, the backoff otherwise
AfterCatch(f) == IF fetches[f].attempt = retries THEN "returned" ELSE "backoff"

\* scrapeArticle(url) is called: attempt = 1
PageFetchStarts(f) ==
    /\ f \in DOMAIN fetches
    /\ fetches[f].pos = "pending"
    /\ fetches' = [fetches EXCEPT ![f].pos = "init", ![f].attempt = 1]
    /\ UNCHANGED <<pipeVars, discVars, retryVars, exportVars, hostVars, strVars>>

\* await this.init(); const page = await this.browser!.newPage()
NewPage(f) ==
    /\ f \in DOMAIN fetches
    /\ fetches[f].pos = "init"
    /\ fetches' = [fetches EXCEPT ![f].pos = "page", ![f].pages = @ + 1]
    /\ UNCHANGED <<pipeVars, discVars, retryVars, exportVars, hostVars, strVars>>

\* init() or newPage() raises: the catch block runs with no page opened
NewPageRaises(f) ==
    /\ f \in DOMAIN fetches
    /\ fetches[f].pos = "init"
    /\ fetches' = [fetches EXCEPT ![f].pos = AfterCatch(f)]
    /\ UNCHANGED <<pipeVars, discVars, retryVars, exportVars, hostVars, strVars>>

\* goto, the waits and extractArticleData return; page.close(); return
PageClosed(f) ==
    /\ f \in DOMAIN fetches
    /\ fetches[f].pos = "page"
    /\ fetches' = [fetches EXCEPT ![f].pos = "returned", ![f].pages = @ - 1,
                                  ![f].success = TRUE]
    /\ UNCHANGED <<pipeVars, discVars, retryVars, exportVars, hostVars, strVars>>

\* a statement between newPage() and page.close() raises: the catch block
\* runs, and it has no access to the page
PageAttemptRaises(f) ==
    /\ f \in DOMAIN fetches
    /\ fetches[f].pos = "page"
    /\ fetches' = [fetches EXCEPT ![f].pos = AfterCatch(f)]
    /\ UNCHANGED <<pipeVars, discVars, retryVars, exportVars, hostVars, strVars>>

\* the backoff delay elapses: attempt++
PageBackoffEnds(f) ==
    /\ f \in DOMAIN fetches
    /\ fetches[f].pos = "backoff"
    /\ fetches' = [fetches EXCEPT ![f].pos = "init", ![f].attempt = @ + 1]
    /\ UNCHANGED <<pipeVars, discVars, retryVars, exportVars, hostVars, strVars>>

InitPages ==
    /\ urls = <<>>
    /\ batchSize = 1
    /\ concurrency = 1
    /\ retries \in 1..MaxRetries
    /\ pc = "idle"
    /\ i = 0
    /\ results = <<>>
    /\ batchResults = <<>>
    /\ slots = <<>>
    /\ reordered = FALSE
    /\ progress = <<>>
    /\ saveError = FALSE
    /\ pacingDelays = 0
    /\ pauses = 0
    /\ fetches \in {[f \in 1..n |-> [pos |-> "pending", attempt |-> 0, pages |-> 0,
                                     success |-> FALSE]] : n \in 1..MaxFetches}
    /\ DiscIdle
    /\ RetryIdle
    /\ ExportIdle
    /\ HostIdle
    /\ requested = 1
    /\ StrIdle

NextPages ==
    \/ \E f \in 1..MaxFetches : PageFetchStarts(f)
    \/ \E f \in 1..MaxFetches : NewPage(f)
    \/ \E f \in 1..MaxFetches : NewPageRaises(f)
    \/ \E f \in 1..MaxFetches : PageClosed(f)
    \/ \E f \in 1..MaxFetches : PageAttemptRaises(f)
    \/ \E f \in 1..MaxFetches : PageBackoffEnds(f)

SpecPages == InitPages /\ [][NextPages]_vars

(***************************************************************************)
(* Export, then retry: the results of a run are exported, and a new        *)
(* BulkScraper is given the failed-URLs file of that export.               *)
(***************************************************************************)
MaxTripUrls == 2

\* new BulkScraper(): scrapingRetries: options.scrapingRetries || 3
DefaultRetries == 3

\* The result lists scrapeArticle can produce for lists of strings: per
\* string, the empty one included, a success or a failure
TripResultLists ==
    UNION {[1..n -> {SuccessResult(k) : k \in Keys \cup {EmptyUrl}}
                    \cup {FailureResult(k, 1) : k \in Keys \cup {EmptyUrl}}] :
               n \in 0..MaxTripUrls}

\* retryFailedUrls is called on a new BulkScraper with the failed-URLs file
\* the export has written
RetryExportedFile ==
    /\ xpc = "done"
    /\ entry = "none"
    /\ \E a \in written :
          /\ a.kind = "failed"
          /\ inputFile' = InputFile("object", a.urls)
    /\ \E b \in 1..MaxFileKeys, c \in 1..MaxConcurrency :
          /\ batchSize' = b
          /\ concurrency' = c
    /\ entry' = "retry"
    /\ rpc' = "called"
    /\ retries' = DefaultRetries
    /\ before' = [retries |-> DefaultRetries, timeout |-> timeout]
    /\ urls' = <<>>
    /\ pc' = "idle"
    /\ i' = 0
    /\ results' = <<>>
    /\ pauses' = 0
    /\ UNCHANGED <<batchResults, slots, reordered, progress, saveError, pacingDelays,
                   timeout, original, discVars, exportVars, hostVars, strVars, pageVars>>

InitRoundTrip ==
    /\ entryPoint = "scrapeArticles"
    /\ exportFormat \in {"json", "both"}
    /\ results \in TripResultLists
    /\ exported = results
    /\ urls = [n \in 1..Len(results) |-> results[n].url]
    /\ batchSize = 1
    /\ concurrency = 1
    /\ retries = 1
    /\ pc = "done"
    /\ i = Len(urls)
    /\ batchResults = <<>>
    /\ slots = <<>>
    /\ reordered = FALSE
    /\ progress = <<>>
    /\ saveError = FALSE
    /\ pacingDelays = 0
    /\ pauses = 0
    /\ written = {}
    /\ xpc = "start"
    /\ DiscIdle
    /\ RetryIdle
    /\ HostIdle
    /\ requested = 1
    /\ StrIdle
    /\ PagesIdle

NextRoundTrip ==
    \/ ExportSwitch
    \/ ExportToJSON
    \/ ExportToCSV
    \/ ExportRaises
    \/ RetryExportedFile
    \/ RetryLoad
    \/ RetryRestore
    \/ RunRaises
    \/ Next

SpecRoundTrip == InitRoundTrip /\ [][NextRoundTrip]_vars

(***************************************************************************)
(* Properties of the concurrency scheduler and the fetch-retry engine.     *)
(***************************************************************************)

\* C1: whenever scrapeMultipleArticles has returned for a batch, its result
\* sequence is as long as the batch and its j-th result is the result that
\* the fetch of the j-th key produced (it carries that key and, when the
\* fetch failed, the error of that key's last attempt), whatever order the
\* fetches completed in.
C1_ResultsInInputOrder ==
    pc = "append" =>
        /\ Len(batchResults) = Len(batch)
        /\ \A j \in 1..Len(batch) :
              /\ batchResults[j] = slots[j].res
              /\ batchResults[j].url = batch[j]
              /\ batchResults[j].fields # "none"
              /\ ~batchResults[j].success =>
                     batchResults[j].error = ErrorOf(batch[j], retries)

\* C1, witness: a batch of distinct keys returned after a fetch completed
\* before a fetch of lower index had.
C1_Witness ==
    /\ pc = "append"
    /\ reordered
    /\ Len(batch) >= 2
    /\ batch[1] # batch[2]

\* C2: in every reachable state of a pipeline run at most `concurrency`
\* scrapeArticle calls have started and not yet returned.
C2_InFlightBounded == NumInFlight <= concurrency

\* C2, witness: a sliding window: one fetch of the batch has returned and
\* `concurrency` (at least two) others are in flight, so one of them was
\* admitted when the first returned.
C2_Witness ==
    /\ concurrency >= 2
    /\ Len(slots) > concurrency
    /\ NumInFlight = concurrency
    /\ \E j \in DOMAIN slots : slots[j].st = "done"

\* C3: a scrapeArticle call all of whose attempts failed has made exactly
\* `retries` attempts and returned a result with success = false, the error
\* of its last attempt, the key as url and otherwise empty fields; and no
\* call waits for a further attempt once `retries` attempts have failed.
C3_RetryExhaustion ==
    \A j \in DOMAIN slots :
        /\ (slots[j].st = "done" /\ ~slots[j].res.success) =>
              /\ slots[j].attempt = retries
              /\ slots[j].res = [url |-> slots[j].url, success |-> FALSE,
                                 error |-> ErrorOf(slots[j].url, retries),
                                 fields |-> "empty"]
        /\ slots[j].st \in {"attempt", "backoff"} => slots[j].attempt <= retries
        /\ slots[j].st = "backoff" => slots[j].attempt < retries

\* C3, witness: a call has returned its failure result after more than one
\* failed attempt.
C3_Witness ==
    \E j \in DOMAIN slots :
        /\ slots[j].st = "done"
        /\ ~slots[j].res.success
        /\ slots[j].attempt >= 2

\* C4: no fetch failure ends the run: scrapeInBatches raises only when a
\* progress write failed, and when it returns it returns one result per
\* input key, in input order, a key whose fetch failed as a success = false
\* result carrying that key.
C4_FailuresNeverAbort ==
    /\ pc = "aborted" => saveError
    /\ pc = "done" =>
          /\ Len(results) = Len(urls)
          /\ \A k \in 1..Len(urls) :
                /\ results[k].url = urls[k]
                /\ \/ results[k] = SuccessResult(urls[k])
                   \/ results[k] = FailureResult(urls[k], retries)

\* C4, witness: a run of several batches has returned with a failed key in
\* its first batch and a successful key after it.
C4_Witness ==
    /\ pc = "done"
    /\ totalBatches >= 2
    /\ Len(results) = Len(urls)
    /\ ~results[1].success
    /\ results[Len(results)].success

(***************************************************************************)
(* Properties of the batch pipeline's checkpointing.                       *)
(***************************************************************************)
\* The number of batches whose checkpoint test has been passed
BatchesPassed ==
    CASE pc = "loop" -> i \div batchSize
      [] pc = "done" -> totalBatches
      [] pc = "pause" -> batchNumber
      [] OTHER -> batchNumber - 1

LoopLeft == dpc \in {"final", "returned"}

\* C5: the stagnation counter is the number of consecutive extractions so
\* far that added no key (an extraction that adds a key sets it to 0); it
\* never passes the threshold (5 scroll, 3 pagination), and once it is at
\* the threshold the run steps no further and returns exactly the keys
\* collected, with success = true unless the final save or page close
\* raised.
C5_StagnationStops ==
    /\ stagnant <= (IF mode = "scroll" THEN 5 ELSE 3)
    /\ dpc \in {"loop", "advance", "final"} =>
          /\ stagnant = zeroRun
          /\ newUrlsFound > 0 => stagnant = 0
    /\ stagnant = (IF mode = "scroll" THEN 5 ELSE 3) =>
          /\ LoopLeft
          /\ dpc = "returned" =>
                /\ dresult.urls = collectedUrls
                /\ dresult.totalCollected = Len(collectedUrls)
                /\ dresult.success \/ dresult.error \in {"save", "close"}

\* C5, witness: a scroll run that found keys, then stagnated for the
\* threshold number of steps, has returned success = true with the keys.
C5_Witness ==
    /\ mode = "scroll"
    /\ dpc = "returned"
    /\ stagnant = MaxStagnant
    /\ extractions > MaxStagnant
    /\ dresult.success
    /\ dresult.urls # <<>>

\* The rank of a state of a discovery run: every step raises it
DiscRank ==
    8 * (extractions + steps) +
    (CASE dpc = "start" -> 0
       [] dpc = "loop" -> 1
       [] dpc = "save" -> 2
       [] dpc = "advance" -> 3
       [] dpc = "final" -> 4
       [] OTHER -> 5)

\* Before its return a run always has a next step that does not raise: the
\* extraction when the loop test holds and the page serves content, the
\* loop exit when it does not, and the step its position names otherwise
NeverStuck ==
    \/ dpc = "returned"
    \/ dpc = "start" /\ ENABLED DStart
    \/ /\ dpc = "loop"
       /\ LoopTest
       /\ (IF mode = "scroll" THEN {visible} ELSE ServePage(steps)) # {}
    \/ dpc = "loop" /\ ENABLED DLoopExit
    \/ dpc = "save" /\ ENABLED DSave
    \/ dpc = "advance" /\ ENABLED DAdvance
    \/ dpc = "final" /\ ENABLED DFinalSave

\* C6: discovery terminates within its budget: it makes at most
\* maxScrollAttempts (maxPages) extractions and advances, every step brings
\* it nearer its return and it is never stuck before it; and a run whose
\* budget is used up below the target without an error returns
\* success = true with the keys collected and no error.
C6_TerminatesWithinBudget ==
    /\ [](/\ extractions <= MaxSteps
          /\ steps <= MaxSteps + 1
          /\ DiscRank <= 8 * (2 * MaxSteps + 1) + 5
          /\ NeverStuck
          /\ (/\ dpc = "returned"
              /\ extractions = MaxSteps
              /\ Len(collectedUrls) < options.targetCount
              /\ dresult.error = "none") =>
                 /\ dresult.success
                 /\ dresult.urls = collectedUrls
                 /\ dresult.totalCollected = Len(collectedUrls))
    /\ [][DiscRank' > DiscRank]_vars

\* C6, witness: a run has used its whole budget without stagnating, ended
\* below its target and returned success = true with some keys.
C6_Witness ==
    /\ dpc = "returned"
    /\ extractions = MaxSteps
    /\ stagnant < MaxStagnant
    /\ Len(collectedUrls) < options.targetCount
    /\ dresult.success
    /\ dresult.urls # <<>>

\* C7: a resumed run starts with the checkpoint's keys collected and the
\* stagnation counter at 0, and an extraction of candidate set E into the
\* collected set S leaves S union E collected (each key once) and reports
\* |E minus S| new keys.
C7_ResumeMerges ==
    [][/\ (dpc = "start" /\ dpc' = "loop") =>
             /\ stagnant' = 0
             /\ collectedUrls' = seeded'
             /\ Range(seeded') =
                    (IF options.resumeFromFile /\ file.kind = "json"
                     THEN Range(file.urls) ELSE {})
       /\ extractions' = extractions + 1 =>
             /\ Range(collectedUrls') = Range(collectedUrls) \cup visible'
             /\ Cardinality(Range(collectedUrls')) = Len(collectedUrls')
             /\ newUrlsFound' = Cardinality(visible' \ Range(collectedUrls))
             /\ SubSeq(collectedUrls', 1, Len(collectedUrls)) = collectedUrls
      ]_vars

\* C7, witness: the first extraction of a resumed run, with S and E
\* overlapping and neither within the other, reported exactly one new key.
C7_Witness ==
    /\ extractions = 1
    /\ options.resumeFromFile
    /\ Range(collectedUrls) = Range(seeded) \cup visible
    /\ Range(seeded) \cap visible # {}
    /\ Range(seeded) \ visible # {}
    /\ visible \ Range(seeded) # {}
    /\ newUrlsFound = 1

\* The keys the source lists within the run's budget
ReachableKeys == UNION {site[p] : p \in 1..MaxSteps}

\* C8: a resumed run that returns success = true, whose source lists within
\* the budget a key the checkpoint lacks and whose checkpoint is below the
\* target, returns a key beyond the checkpoint's.
C8_ResumeContinues ==
    (/\ dpc = "returned"
     /\ dresult.success
     /\ options.resumeFromFile
     /\ seeded # <<>>
     /\ Len(seeded) < options.targetCount
     /\ ReachableKeys \ Range(seeded) # {}) =>
        Range(dresult.urls) \ Range(seeded) # {}

\* C9: a run that fails returns success = false with the error, every key
\* collected before the failure (those loaded from the checkpoint
\* included), and leaves the checkpoint file readable: as it was, or as a
\* save completed before the failure wrote it.
C9_FailureKeepsKeysAndCheckpoint ==
    [][(dpc # "returned" /\ dpc' = "returned" /\ ~dresult'.success) =>
          /\ dresult'.error \notin {"none", "pending"}
          /\ dresult'.urls = collectedUrls'
          /\ Range(collectedUrls) \subseteq Range(dresult'.urls)
          /\ seeded' # <<>> => Range(seeded') \subseteq Range(dresult'.urls)
          /\ file' \in {file, Snapshot(collectedUrls)}
      ]_vars

(***************************************************************************)
(* Checkpoint exposure, batch order and the single writer.                 *)
(***************************************************************************)
\* The fetch results produced so far: those accumulated and those of the
\* running batch whose scrapeArticle call has returned
Produced ==
    Len(results) + Cardinality({j \in DOMAIN slots : slots[j].st = "done"})

\* The number of results the last progress file written holds
LastCheckpointed ==
    IF progress = <<>> THEN 0 ELSE progress[Len(progress)][2]

\* C11: at every point of a batch-pipeline run, the fetch results produced
\* but not held by the last checkpoint written number at most batchSize.
C11_LossAtMostOneBatch == Produced - LastCheckpointed <= batchSize

\* C12: batches run in input order and never overlap: while a batch runs,
\* the results of all earlier batches are accumulated and every call of the
\* batch is for the key at its offset; the accumulated results are, key by
\* key, those of a prefix of the input that ends at a batch boundary, and
\* of the whole input at the return.
C12_BatchesInOrder ==
    /\ \A n \in 1..Len(results) : n <= Len(urls) /\ results[n].url = urls[n]
    /\ Len(results) \in {Min(i, Len(urls)), Min(i + batchSize, Len(urls))}
    /\ slots # <<>> =>
          /\ Len(results) = i
          /\ \A j \in DOMAIN slots : i + j <= Len(urls) /\ slots[j].url = urls[i + j]
    /\ pc = "done" => Len(results) = Len(urls)

\* C12, witness: a run over at least three batches of distinct keys has
\* returned, with a batch in which a later fetch finished first.
C12_Witness ==
    /\ pc = "done"
    /\ totalBatches >= 3
    /\ batchSize >= 2
    /\ reordered
    /\ Len(results) = Len(urls)
    /\ \A m, n \in 1..Len(urls) : m # n => urls[m] # urls[n]

\* C19: no two attempts for the same key are in progress at the same time.
C19_NoConcurrentSameKey ==
    \A j, k \in DOMAIN slots :
        (j # k /\ slots[j].st = "attempt" /\ slots[k].st = "attempt") =>
            slots[j].url # slots[k].url

\* C20: the accumulated results change only by the driver appending a
\* finished batch, a progress file is written only by the driver at its
\* checkpoint step, neither happens while a fetch is in flight, and a step
\* of a fetch changes nothing of the driver's but its own call's state and,
\* at its return, the batch's results and the driver's position.
C20_SingleWriter ==
    /\ [](pc \in {"append", "save", "pause"} => NumInFlight = 0)
    /\ [][(results' # results =>
              /\ pc = "append"
              /\ NumInFlight = 0
              /\ results' = results \o batchResults)
          /\ (progress' # progress =>
              /\ pc = "save"
              /\ NumInFlight = 0
              /\ progress' = Append(progress, <<batchNumber, Len(results)>>))
          /\ ((\E j \in DOMAIN slots : InFlight(j) /\ slots' # slots) =>
              UNCHANGED <<urls, i, results, progress, batchSize, concurrency, retries>>)
      ]_vars

\* C20, witness: a progress file was written after a parallel batch in
\* which a later fetch finished first, and the run went on.
C20_Witness ==
    /\ progress # <<>>
    /\ reordered
    /\ concurrency >= 2
    /\ Len(results) >= 2
    /\ pc = "done"

(***************************************************************************)
(* Malformed input and the atomicity of saves.                             *)
(***************************************************************************)
\* C16: a resumed run whose checkpoint file cannot be parsed ends in a
\* reported error: it returns success = false at once and collects nothing.
C16_MalformedCheckpointFatal ==
    [][(dpc = "start" /\ options.resumeFromFile /\ file = CorruptFile) =>
          /\ dpc' = "returned"
          /\ ~dresult'.success
      ]_vars

\* C17: a save is atomic: whatever happens during it, a readable checkpoint
\* file afterwards holds the previous snapshot or the complete new one.
C17_SaveAtomic ==
    [][IsCheckpoint(file) => file' \in {file, Snapshot(collectedUrls)}]_vars

(***************************************************************************)
(* Retry-failed-only mode.                                                 *)
(***************************************************************************)
\* A fetch attempt of a retryFailedUrls run is under way
RetryAttempt(j) ==
    /\ entry = "retry"
    /\ rpc = "running"
    /\ slots[j].st = "attempt"

\* C13: during a retryFailedUrls run every fetch attempt is made with
\* retries at the larger of the original retries plus 2 and 5, and timeout
\* at the larger of one and a half times the original timeout and 45000 ms;
\* a key that still fails has been attempted that many times.
C13_AmplifiedBudget ==
    (entry = "retry" /\ rpc = "running") =>
        /\ retries >= before.retries + 2
        /\ retries >= 5
        /\ retries = before.retries + 2 \/ retries = 5
        /\ 2 * timeout >= 3 * before.timeout
        /\ timeout >= 45000
        /\ 2 * timeout = 3 * before.timeout \/ timeout = 45000
        /\ \A j \in DOMAIN slots :
              /\ slots[j].attempt <= retries
              /\ (slots[j].st = "done" /\ ~slots[j].res.success) =>
                    slots[j].res.error = ErrorOf(slots[j].url, retries)
        /\ \A n \in 1..Len(results) : ~results[n].success =>
              results[n].error = ErrorOf(results[n].url, retries)

\* C13, witness: an attempt beyond the fifth is under way in a retry run
\* whose original timeout is amplified above the floor.
C13_Witness ==
    /\ \E j \in DOMAIN slots : RetryAttempt(j) /\ slots[j].attempt > 5
    /\ timeout > 45000

\* C14: once retryFailedUrls has returned, the scraper's retries and
\* timeout are what they were before the call.
C14_SettingsRestored ==
    (entry = "retry" /\ rpc = "returned") =>
        /\ retries = before.retries
        /\ timeout = before.timeout

\* C14, witness: a retry run that fetched keys, one of which failed on
\* every amplified attempt, has returned.
C14_Witness ==
    /\ entry = "retry"
    /\ rpc = "returned"
    /\ \E n \in 1..Len(results) :
          /\ ~results[n].success
          /\ results[n].error = ErrorOf(results[n].url, before.retries + 2)
    /\ \E n \in 1..Len(results) : results[n].success
    /\ retries < 5

\* C15: a retry run given a failed-keys file in either accepted shape,
\* { urls: [k1..kn] } or [k1..kn], returns n results, the n-th for kn.
C15_EitherShape ==
    (/\ entry = "retry"
     /\ rpc = "returned"
     /\ inputFile.shape \in {"object", "array"}) =>
        /\ Len(results) = Len(inputFile.keys)
        /\ \A n \in 1..Len(results) : results[n].url = inputFile.keys[n]

(***************************************************************************)
(* The failed-keys artifact.                                               *)
(***************************************************************************)
\* C18: when the export of a run whose results hold a failure is done, a
\* failed-keys file listing the failed keys has been written, whatever the
\* export format and the entry point.
C18_FailedKeysArtifact ==
    (xpc = "done" /\ Len(FailedResults(results)) > 0) =>
        \E a \in written : a.kind = "failed" /\ a.urls = FailedUrlsOf(results)

(***************************************************************************)
(* The target, the order of advance and extraction, the save interval.     *)
(***************************************************************************)
\* C27: once the collected set holds targetCount keys, discovery makes no
\* further extraction and no further advance of the source, and its return
\* is success = true unless the final save or the page close raises; a run
\* whose checkpoint already holds targetCount keys returns after no
\* extraction at all.
C27_StopsAtTarget ==
    /\ []((dpc = "returned" /\ Len(seeded) >= options.targetCount) =>
             extractions = 0)
    /\ [][Len(collectedUrls) >= options.targetCount =>
             /\ extractions' = extractions
             /\ steps' = steps
             /\ visible' = visible
             /\ collectedUrls' = collectedUrls
             /\ dpc' = "returned" =>
                   \/ dresult'.success /\ dresult'.urls = collectedUrls
                   \/ dresult'.error \in {"save", "close"}
      ]_vars

\* C27, witness: a run that started below its target reached it by its
\* second or a later extraction and returned success = true.
C27_Witness ==
    /\ dpc = "returned"
    /\ dresult.success
    /\ Len(seeded) < options.targetCount
    /\ Len(collectedUrls) >= options.targetCount
    /\ extractions >= 2
    /\ mode = "scroll" => steps = extractions - 1

C29_UnsavedBelowInterval ==
    dpc \in {"loop", "advance", "final"} =>
        /\ Len(collectedUrls) - lastUrlCount < options.saveInterval
        /\ lastUrlCount <= Len(collectedUrls)
        /\ lastUrlCount > 0 =>
              /\ IsCheckpoint(file)
              /\ file.urls = SubSeq(collectedUrls, 1, lastUrlCount)

\* C29, witness: after a save the run has collected a further key, fewer
\* than the interval, and goes on.
C29_Witness ==
    /\ dpc = "advance"
    /\ options.saveInterval >= 2
    /\ lastUrlCount >= 2
    /\ Len(seeded) < lastUrlCount
    /\ Len(collectedUrls) = lastUrlCount + 1

(***************************************************************************)
(* Backoff and pacing.                                                     *)
(***************************************************************************)
\* 1 + 2 + ... + (n - 1)
SumBelow(n) == (n * (n - 1)) \div 2

\* C26: a scrapeArticle call makes no attempt after a success, waits
\* delay * n after the failed attempt n when n < retries, and does not wait
\* after a success or after the last failed attempt: at attempt n it has
\* waited delay * (1 + ... + (n - 1)), and a call that failed on all
\* attempts delay * (1 + ... + (retries - 1)) in retries - 1 waits.
C26_LinearBackoff ==
    /\ [](\A j \in DOMAIN slots :
             /\ slots[j].st = "pending" => slots[j].waited = 0
             /\ slots[j].st = "attempt" => slots[j].waited = SumBelow(slots[j].attempt)
             /\ slots[j].st = "backoff" =>
                   /\ slots[j].attempt < retries
                   /\ slots[j].waited = SumBelow(slots[j].attempt + 1)
             /\ slots[j].st = "done" =>
                   /\ slots[j].waited = SumBelow(slots[j].attempt)
                   /\ ~slots[j].res.success => slots[j].attempt = retries)
    /\ [][\A j \in DOMAIN slots \cap DOMAIN slots' :
             /\ slots[j].st = "done" => slots'[j] = slots[j]
             /\ slots'[j].attempt # slots[j].attempt =>
                   /\ slots[j].st \in {"pending", "backoff"}
                   /\ slots'[j].attempt = slots[j].attempt + 1
                   /\ slots'[j].st = "attempt"
             /\ slots'[j].waited # slots[j].waited =>
                   /\ slots[j].st = "attempt"
                   /\ slots'[j].st = "backoff"
                   /\ slots'[j].waited = slots[j].waited + slots[j].attempt
      ]_vars

\* C26, witness: a call has failed on all of at least three attempts and
\* waited delay * (1 + ... + (retries - 1)), while another call succeeded
\* at its second attempt after one wait of delay.
C26_Witness ==
    /\ \E j \in DOMAIN slots :
          /\ slots[j].st = "done"
          /\ ~slots[j].res.success
          /\ slots[j].attempt >= 3
          /\ slots[j].waited = SumBelow(retries)
          /\ slots[j].waited >= 3
    /\ \E j \in DOMAIN slots :
          /\ slots[j].st = "done"
          /\ slots[j].res.success
          /\ slots[j].attempt = 2
          /\ slots[j].waited = 1

\* The calls of the batch that have returned
DoneCount == Cardinality({j \in DOMAIN slots : slots[j].st = "done"})

\* C30: with concurrency 1 at most one fetch is in flight, item j is
\* fetched only after the items before it have returned and j - 1 pacing
\* delays have elapsed, and a batch of n items returns after exactly n - 1
\* pacing delays, none after the last item; with concurrency above 1 there
\* is no pacing delay.
C30_SequentialPacing ==
    /\ concurrency = 1 =>
          /\ NumInFlight <= 1
          /\ pc # "map"
          /\ \A j \in DOMAIN slots : InFlight(j) =>
                /\ pc = "seq"
                /\ \A k \in 1..(j - 1) : slots[k].st = "done"
                /\ pacingDelays = j - 1
          /\ pc = "seq" => pacingDelays = DoneCount
          /\ pc = "seqDelay" =>
                /\ DoneCount < Len(slots)
                /\ pacingDelays = DoneCount - 1
          /\ pc = "append" => pacingDelays = Len(slots) - 1
    /\ concurrency > 1 =>
          /\ pc \notin {"seq", "seqDelay"}
          /\ pc \in {"map", "append"} => pacingDelays = 0

\* C30, witness: a sequential batch of three items has returned after two
\* pacing delays.
C30_Witness ==
    /\ concurrency = 1
    /\ pc = "append"
    /\ Len(slots) = 3
    /\ pacingDelays = 2

(***************************************************************************)
(* Stop requests, browsers, and the concurrency option of scrapeArticles.  *)
(***************************************************************************)
\* C21: when the process has been asked to stop during a scheduler run, no
\* attempt that was in flight at the request is left unfinished.
C21_InFlightFinishOnStop ==
    pc = "killed" => interrupted = {}

\* C22: when an entry point has finished, by returning or by raising, no
\* browser it launched is still open.
C22_BrowsersClosedAtFinish ==
    phase \in {"returned", "raised"} => openBrowsers = 0

\* C23: when a caller has asked for a concurrency of two or more, one fetch
\* is in flight and an item has not yet started, that item can start.
C23_ConcurrencyOptionHonoured ==
    (/\ requested >= 2
     /\ pc \in {"seq", "map"}
     /\ NumInFlight = 1
     /\ \E j \in DOMAIN slots : slots[j].st = "pending")
        => ENABLED (\E j \in 1..MaxUrls : StartFetch(j))

(***************************************************************************)
(* Cleaning of links and escaping of CSV fields.                           *)
(***************************************************************************)
\* C24: cleaning a cleaned link gives the same cleaned link, and after two
\* insertions of the same link the key set has grown by at most one key,
\* which is the cleaned link.
C24_CleanIdempotent ==
    /\ spc \in {"recleaned", "inserted", "insertedTwice"} => back = output
    /\ spc \in {"inserted", "insertedTwice"} =>
          /\ Len(strSet) <= sizeBefore + 1
          /\ output \in Range(strSet)
          /\ \A m, n \in DOMAIN strSet : strSet[m] = strSet[n] => m = n

\* C24, witness: a link with two "?" was cleaned to a shorter link, inserted
\* twice into a key set that did not hold it, and the set grew by one.
C24_Witness ==
    /\ spc = "insertedTwice"
    /\ Cardinality({k \in DOMAIN input : input[k] = "?"}) >= 2
    /\ Len(output) >= 1
    /\ Len(output) < Len(input)
    /\ sizeBefore >= 1
    /\ Len(strSet) = sizeBefore + 1

\* The number of quotes in a field
Quotes(f) == Cardinality({k \in DOMAIN f : f[k] = Quote})

\* C25: a field without comma, quote or newline is written as it is; any
\* other field is written between two quotes with each of its quotes
\* doubled; reading the written field gives the field back.
C25_CsvRoundTrip ==
    /\ spc \in {"escaped", "read"} =>
          IF \A k \in DOMAIN input : input[k] \notin {",", Quote, "\n"}
          THEN output = input
          ELSE /\ Len(output) = Len(input) + Quotes(input) + 2
               /\ Head(output) = Quote
               /\ output[Len(output)] = Quote
               /\ Quotes(output) = 2 * Quotes(input) + 2
               /\ [k \in 1..(Len(output) - 2) |-> output[k + 1]] = DoubleQuotes(input)
    /\ spc = "read" => back = input

\* C25, witness: a field with a quote, a comma and a newline was written and
\* read back.
C25_Witness ==
    /\ spc = "read"
    /\ Quotes(input) >= 1
    /\ \E k \in DOMAIN input : input[k] = ","
    /\ \E k \in DOMAIN input : input[k] = "\n"
    /\ output # input
    /\ back = input

(***************************************************************************)
(* Order of the steps of a batch.                                          *)
(***************************************************************************)
\* C31: in scrapeInBatches a batch is appended only when all its fetches
\* have returned, the checkpoint is written only after the append and only
\* when it is due, the pause comes after the append and the due checkpoint
\* and only when another batch follows; after the final batch the loop is
\* left without a pause, so that the pauses elapsed are always one fewer
\* than the batches started and a run of B >= 1 batches ends with B - 1.
C31_BatchStepOrder ==
    /\ [](/\ pc \in {"seq", "seqDelay", "map", "append", "save", "pause"} =>
                pauses = batchNumber - 1
          /\ (pc = "loop" /\ i < Len(urls)) => pauses = batchNumber - 1
          /\ (pc \in {"loop", "done"} /\ i >= Len(urls)) =>
                pauses = IF urls = <<>> THEN 0 ELSE totalBatches - 1
          /\ pc \in {"save", "pause"} =>
                /\ slots = <<>>
                /\ Len(results) = Min(i + batchSize, Len(urls))
          /\ pc = "save" => SaveDue
          /\ pc = "pause" =>
                /\ batchNumber < totalBatches
                /\ SaveDue => (/\ progress # <<>>
                               /\ progress[Len(progress)] = <<batchNumber, Len(results)>>))
    /\ [][/\ (pc' = "append" /\ pc # "append") =>
                (/\ pc \in {"seq", "map"}
                 /\ \A j \in DOMAIN slots' : slots'[j].st = "done"
                 /\ Len(batchResults') = Len(batch))
          /\ (pc' = "save" /\ pc # "save") => pc = "append"
          /\ (pc' = "pause" /\ pc # "pause") =>
                (/\ pc \in {"append", "save"}
                 /\ pc = "append" => ~SaveDue)
          /\ (pc \in {"append", "save"} /\ pc' = "loop") =>
                (/\ batchNumber = totalBatches
                 /\ pc = "append" => ~SaveDue)
          /\ (pc = "pause" /\ pc' # "pause") => (pc' = "loop" /\ i' = i + batchSize)
      ]_vars

\* C31, witness: a run of six batches has returned after five pauses, with
\* the checkpoints of the fifth and of the final batch written.
C31_Witness ==
    /\ pc = "done"
    /\ totalBatches = 6
    /\ pauses = 5
    /\ Len(results) = 6
    /\ Len(progress) = 2

(***************************************************************************)
(* Errors of the batch pipeline during retryFailedUrls.                    *)
(***************************************************************************)
\* C33: once an error of the batch pipeline has left retryFailedUrls, the
\* scraper's retries and timeout are what they were before the call.
C33_SettingsRestoredOnError ==
    (entry = "retry" /\ rpc = "raised" /\ saveError) =>
        /\ retries = before.retries
        /\ timeout = before.timeout

(***************************************************************************)
(* The checkpoint of a successful discovery.                               *)
(***************************************************************************)
\* C34: when collectArticleUrls has returned success, the checkpoint file
\* holds the returned keys in the returned order, its totalUrls is their
\* number, totalCollected is their number, and no key is returned twice.
C34_CheckpointMatchesResult ==
    (dpc = "returned" /\ dresult.success) =>
        /\ IsCheckpoint(file)
        /\ file.urls = dresult.urls
        /\ file.totalUrls = Len(dresult.urls)
        /\ dresult.totalCollected = Len(dresult.urls)
        /\ \A m, n \in DOMAIN dresult.urls : dresult.urls[m] = dresult.urls[n] => m = n

\* C34, witness: a resumed run has returned success with keys found after
\* its last periodic save.
C34_Witness ==
    /\ dpc = "returned"
    /\ dresult.success
    /\ seeded # <<>>
    /\ Len(dresult.urls) > Len(seeded)
    /\ lastUrlCount < Len(dresult.urls)
    /\ file.totalUrls = Len(dresult.urls)

(***************************************************************************)
(* Pages of scrapeArticle.                                                 *)
(***************************************************************************)
\* C32: a call of scrapeArticle holds an open page only while an attempt of
\* it works on that page: none between attempts and none once it has
\* returned; so the open pages are never more than the calls in flight.
C32_PagesClosed ==
    /\ \A f \in DOMAIN fetches :
          /\ fetches[f].pos \in {"init", "backoff", "returned"} => fetches[f].pages = 0
          /\ fetches[f].pos = "page" => fetches[f].pages = 1
    /\ OpenPages <= FetchesInFlight

(***************************************************************************)
(* Export, then retry.                                                     *)
(***************************************************************************)
\* The keys of the failed results, in result order
FailedKeys(res) == [n \in 1..Len(FailedResults(res)) |-> FailedResults(res)[n].url]

\* The keys with a successful result
SucceededKeys(res) == {res[n].url : n \in {m \in DOMAIN res : res[m].success}}

\* A retry run on the failed-URLs file of the export is under way or over
RetryOfExport == entry = "retry" /\ rpc \in {"running", "returned"} /\ exported # <<>>

\* C35: when no exported result has the empty key, the failed-URLs file
\* lists the keys of the failed results in result order, the retry run on
\* that file is given exactly that list, every fetch it makes is for one of
\* these keys, its results are for these keys in order, and it fetches no
\* key all of whose results were successful.
C35_RoundTrip ==
    (\A n \in DOMAIN exported : exported[n].url # EmptyUrl) =>
        /\ \A a \in written : a.kind = "failed" => a.urls = FailedKeys(exported)
        /\ RetryOfExport =>
              /\ inputFile.keys = FailedKeys(exported)
              /\ urls = FailedKeys(exported)
              /\ \A j \in DOMAIN slots :
                    /\ slots[j].url \in Range(FailedKeys(exported))
                    /\ slots[j].url \notin
                          SucceededKeys(exported) \ Range(FailedKeys(exported))
              /\ rpc = "returned" =>
                    [n \in 1..Len(results) |-> results[n].url] = FailedKeys(exported)

\* C35, witness: the export held a success and a failure; the retry run on
\* its failed-URLs file has returned one result, for the failed key.
C35_Witness ==
    /\ RetryOfExport
    /\ rpc = "returned"
    /\ \A n \in DOMAIN exported : exported[n].url # EmptyUrl
    /\ Len(exported) = 2
    /\ Len(FailedKeys(exported)) = 1
    /\ Len(results) = 1
    /\ results[1].url \notin SucceededKeys(exported)

\* C35 as stated: for every result sequence the failed-URLs file lists the
\* keys of the failed results, never the placeholder, and the retry run
\* fetches these keys and no key with a successful result.
C35_RoundTripAnySequence ==
    /\ \A a \in written :
          a.kind = "failed" =>
              /\ a.urls = FailedKeys(exported)
              /\ UnknownUrl \notin Range(a.urls)
    /\ RetryOfExport =>
          /\ urls = FailedKeys(exported)
          /\ \A j \in DOMAIN slots : slots[j].url \notin SucceededKeys(exported)

=============================================================================
